---- MODULE Spec2Model ----
(***************************************************************************)
(* Murakabe ERP: inventory stock moves and product stock fields, invoice    *)
(* totals, sales orders, rule-based anomaly detection and the balance      *)
(* sheet, modelled from src/modules/inventory, src/modules/accounting and  *)
(* src/modules/sales.                                                      *)
(*                                                                         *)
(* Amounts are Python floats in the source; the model uses exact integer   *)
(* arithmetic (money in minor units, unit prices multiples of 100 so that  *)
(* rate/100 is exact).  Floating-point rounding is not modelled.           *)
(***************************************************************************)
EXTENDS Integers, Sequences, FiniteSets, TLC

VARIABLES
    products,   \* table products: id -> row (committed)
    moves,      \* table stock_moves: sequence of rows, id = index (committed)
    seeded,     \* qty_available of each product as seeded (never changes)
    now,        \* datetime.utcnow()
    resp,       \* the last HTTP response of the inventory router
    req,        \* execute requests in flight: request -> its session's state
    delta_committed,  \* history: moves whose product UPDATE has been committed
    companies,  \* table companies: the stored ids
    partners,   \* table partners: the stored ids
    invoices,   \* table invoices with their invoice_lines, in insertion order
    acc_resp,   \* the last HTTP response of the accounting router
    customers,  \* table customers: the stored ids
    orders,     \* table sales_orders with their sales_order_lines: id -> row
    order_seq,  \* the last id the sequence of sales_orders.id handed out
    sales_resp, \* the last HTTP response of the sales router
    accounts,       \* table accounts: id -> row
    transactions,   \* table transactions: sequence of rows, id = index
    anomalies,      \* table anomaly_detections: sequence of rows, id = index
    balance_sheet,  \* the body of the last balance-sheet report returned
    ledger_resp,    \* the last response of the anomaly and report endpoints
    forecasts,      \* table cashflow_forecasts: sequence of rows, id = index
    forecast_resp,  \* the last response of the cash-flow forecast endpoint
    partner_rows,   \* table partners: id -> current_balance and credit_score
    partner_resp,   \* the last response of the partner balance endpoint
    pos_sessions,   \* table pos_sessions: sequence of rows, id = index
    pos_orders,     \* table pos_orders: sequence of rows, id = index
    pos_req,        \* POS requests in flight: request -> its session's state
    rate_limit,     \* Redis: client ip -> the key rate_limit:<ip>
    limit_req       \* requests inside RateLimitMiddleware.dispatch

inv_vars == <<products, moves, seeded, now, resp>>

\* The state of the execute requests that are served step by step.
txn_vars == <<req, delta_committed>>

acc_vars == <<companies, partners, invoices, acc_resp>>

sales_vars == <<customers, orders, order_seq, sales_resp>>

ledger_vars == <<accounts, transactions, anomalies, balance_sheet, ledger_resp>>

forecast_vars == <<forecasts, forecast_resp>>

\* The state of the handlers that have a specification of their own.
partner_vars == <<partner_rows, partner_resp>>

pos_vars == <<pos_sessions, pos_orders, pos_req>>

limiter_vars == <<rate_limit, limit_req>>

aux_vars == <<forecast_vars, partner_vars, pos_vars, limiter_vars>>

\* Everything outside the inventory module.
other_vars == <<acc_vars, sales_vars, ledger_vars, aux_vars>>

\* Everything the atomic inventory handlers leave alone.
not_inv_vars == <<txn_vars, other_vars>>

\* Everything the accounting handlers leave alone.
not_acc_vars == <<inv_vars, txn_vars, sales_vars, ledger_vars, aux_vars>>

\* Everything the sales handlers leave alone.
not_sales_vars == <<inv_vars, txn_vars, acc_vars, ledger_vars, aux_vars>>

\* Everything the anomaly and report endpoints leave alone.
not_ledger_vars == <<inv_vars, txn_vars, acc_vars, sales_vars, aux_vars>>

\* The tables and responses of the inventory, accounting and sales routers.
base_vars == <<inv_vars, txn_vars, acc_vars, sales_vars, ledger_vars>>

\* Everything the forecast endpoint leaves alone.
not_forecast_vars == <<base_vars, partner_vars, pos_vars, limiter_vars>>

\* Everything the partner balance endpoint leaves alone.
not_partner_vars == <<base_vars, forecast_vars, pos_vars, limiter_vars>>

\* Everything the POS router leaves alone.
not_pos_vars == <<base_vars, forecast_vars, partner_vars, limiter_vars>>

\* Everything the rate limiter leaves alone.
not_limiter_vars == <<base_vars, forecast_vars, partner_vars, pos_vars>>

vars == <<base_vars, aux_vars>>

\* ------------------------------------------------------------------ bounds
MaxMoves == 2
MaxClock == 2
MaxLines == 2
MaxAnomalies == 3
MaxForecasts == 2

\* ------------------------------------------------------------- enumerations
None == "None"

\* StockMoveType
TYPE_IN == "in"
TYPE_OUT == "out"
TYPE_INTERNAL == "internal"
StockMoveType == {TYPE_IN, TYPE_OUT, TYPE_INTERNAL}

\* StockMoveState
DRAFT == "draft"
CONFIRMED == "confirmed"
DONE == "done"
CANCELLED == "cancelled"
StockMoveState == {DRAFT, CONFIRMED, DONE, CANCELLED}

\* ------------------------------------------------------------- input sets
ProductIds == {1, 2}
SeedQty == {5}
ReservedValues == {0, 1}
\* StockMoveCreate payloads <<product_id, move_type, quantity, unit_price>>:
\* every move type, two products, a quantity above the seeded stock, and
\* the payloads the handler rejects (quantity 0, unknown product 3).
MovePayloads ==
    {<<1, TYPE_IN, 10, 7>>, <<1, TYPE_OUT, 3, 7>>, <<1, TYPE_OUT, 10, 0>>,
     <<1, TYPE_INTERNAL, 3, 7>>, <<2, TYPE_IN, 3, 0>>,
     <<1, TYPE_IN, 0, 7>>, <<3, TYPE_IN, 3, 7>>}

\* A nullable DateTime column holding NULL.
NullDate == 0

\* A transient ORM object carries the set of attributes its constructor was
\* not given: reading one yields None, and INSERT stores the Column default.
IsNone(obj, attr) == "unset" \in DOMAIN obj /\ attr \in obj.unset

SetAttr(obj, attr) ==
    IF "unset" \in DOMAIN obj THEN [obj EXCEPT !.unset = @ \ {attr}] ELSE obj

\* ------------------------------------------------------------------ Product
\* Product.update_virtual_available: None - float raises TypeError.
update_virtual_available_raises(p) == IsNone(p, "qty_available")

update_virtual_available(p) ==
    LET qty_reserved == IF IsNone(p, "qty_reserved") THEN 0 ELSE p.qty_reserved
    IN  SetAttr([p EXCEPT !.virtual_available = p.qty_available - qty_reserved],
                "virtual_available")

\* Product(**product.model_dump(), code=...): ProductCreate has no stock field.
NewProduct ==
    [qty_available |-> 0, qty_reserved |-> 0, virtual_available |-> 0,
     unset |-> {"qty_available", "qty_reserved", "virtual_available"}]

\* The row INSERTed for a transient Product: unset columns take default=0.0.
InsertProduct(p) ==
    [qty_available |-> IF IsNone(p, "qty_available") THEN 0 ELSE p.qty_available,
     qty_reserved |-> IF IsNone(p, "qty_reserved") THEN 0 ELSE p.qty_reserved,
     virtual_available |->
         IF IsNone(p, "virtual_available") THEN 0 ELSE p.virtual_available]

\* seed_inventory_data: Product(**prod_data) with qty_available given, then
\* update_virtual_available(), then INSERT.  qty_reserved is a column this
\* code never writes; its stored value is drawn from ReservedValues.
SeedProduct(q, r) ==
    InsertProduct(update_virtual_available(
        [qty_available |-> q, qty_reserved |-> r, virtual_available |-> 0,
         unset |-> {"virtual_available"}]))

\* ---------------------------------------------------------------- StockMove
\* Mutant: calculate_total() leaves total_value as it was.
calculate_total_skipped(m) == m

calculate_total(m) ==
    SetAttr([m EXCEPT !.total_value = m.quantity * m.unit_price], "total_value")

\* Mutant: the state guard of confirm() dropped.
confirm_unguarded(m) == [m EXCEPT !.state = CONFIRMED]

confirm(m) == IF m.state = DRAFT THEN [m EXCEPT !.state = CONFIRMED] ELSE m

\* Mutant: execute() rejects only DRAFT moves.
execute_raises_draft_only(m) == m.state = DRAFT

\* StockMove.execute raises ValueError unless the move is CONFIRMED.
execute_raises(m) == m.state # CONFIRMED

\* Mutant: an OUT move adds its quantity like an IN move.
execute_qty_out_adds(m, p) ==
    IF m.move_type \in {TYPE_IN, TYPE_OUT} THEN p.qty_available + m.quantity
    ELSE p.qty_available

execute_qty(m, p) ==
    IF m.move_type = TYPE_IN THEN p.qty_available + m.quantity
    ELSE IF m.move_type = TYPE_OUT THEN p.qty_available - m.quantity
    ELSE p.qty_available

\* The product and the move as StockMove.execute leaves them (no raise).
execute_product(m, p) ==
    update_virtual_available([p EXCEPT !.qty_available = execute_qty(m, p)])

\* Mutant: execute() stamps done_date but leaves the state CONFIRMED.
execute_move_keeps_state(m, t) == [m EXCEPT !.done_date = t]

execute_move(m, t) == [m EXCEPT !.state = DONE, !.done_date = t]

\* StockMove(**move.model_dump(), name=...): state, total_value, done_date unset.
NewStockMove(pid, mt, q, up) ==
    [product_id |-> pid, move_type |-> mt, quantity |-> q, unit_price |-> up,
     state |-> None, total_value |-> 0, done_date |-> NullDate,
     unset |-> {"state", "total_value", "done_date"}]

\* The row INSERTed for a transient StockMove: state default DRAFT,
\* total_value default 0.0, done_date NULL.
InsertStockMove(m) ==
    [product_id |-> m.product_id, move_type |-> m.move_type,
     quantity |-> m.quantity, unit_price |-> m.unit_price,
     state |-> IF IsNone(m, "state") THEN DRAFT ELSE m.state,
     total_value |-> IF IsNone(m, "total_value") THEN 0 ELSE m.total_value,
     done_date |-> IF IsNone(m, "done_date") THEN NullDate ELSE m.done_date]

\* StockMoveBase.quantity_must_be_positive
quantity_must_be_positive(q) == q > 0

\* The products table after seeding: product 1 with or without reserved
\* stock, product 2 without.
SeededProducts ==
    {[p \in ProductIds |-> SeedProduct(q, IF p = 1 THEN r ELSE 0)] :
        q \in SeedQty, r \in ReservedValues}

Response(op, status) == [op |-> op, status |-> status]

\* ------------------------------------------------------------------- Init
InvInit ==
    /\ products \in SeededProducts
    /\ seeded = [p \in ProductIds |-> products[p].qty_available]
    /\ moves = <<>>
    /\ now = 1
    /\ resp = Response("none", 0)

\* ------------------------------------------- execute requests, step by step
Requests == {1, 2}

NoMove ==
    [product_id |-> 0, move_type |-> TYPE_INTERNAL, quantity |-> 0,
     unit_price |-> 0, state |-> None, total_value |-> 0, done_date |-> NullDate]

NoProduct == [qty_available |-> 0, qty_reserved |-> 0, virtual_available |-> 0]

\* A request that holds no session.
IdleRequest ==
    [pc |-> "idle", move_id |-> 0, move |-> NoMove, base |-> NoProduct,
     product |-> NoProduct, status |-> 0, stage |-> "idle"]

TxnIdle ==
    /\ req = [r \in Requests |-> IdleRequest]
    /\ delta_committed = {}

\* No accounting request has been served: one partner, no invoice, and
\* either no company or one company whose id is not 1.
AccIdle ==
    /\ companies \in {{}, {2}}
    /\ partners = {1}
    /\ invoices = <<>>
    /\ acc_resp = Response("none", 0)

\* The accounting tables as the inventory specifications hold them.
AccQuiet ==
    /\ companies = {}
    /\ partners = {1}
    /\ invoices = <<>>
    /\ acc_resp = Response("none", 0)

\* No sales request has been served: one customer, no order.
SalesIdle ==
    /\ customers = {1}
    /\ orders = <<>>
    /\ order_seq = 0
    /\ sales_resp = Response("none", 0)

\* A bucket of the balance sheet, and the report before any was asked for.
Bucket(total, listed) == [total |-> total, accounts |-> listed]

NoBalanceSheet ==
    [report_date |-> 0, assets |-> Bucket(0, <<>>),
     liabilities |-> Bucket(0, <<>>), equity |-> Bucket(0, <<>>)]

\* The ledger with no account and no transaction.
LedgerQuiet ==
    /\ accounts = <<>>
    /\ transactions = <<>>
    /\ anomalies = <<>>
    /\ balance_sheet = NoBalanceSheet
    /\ ledger_resp = [op |-> "none", status |-> 0, created |-> 0]

\* No forecast has been asked for.
ForecastQuiet ==
    /\ forecasts = <<>>
    /\ forecast_resp = [op |-> "none", status |-> 0]

\* The body of a partner balance response that carries none.
NoBody == [current_balance |-> 0, credit_score |-> 0, recommendations |-> <<>>]

BalanceResponse(status, partner_id, body) ==
    [op |-> "get_partner_balance", status |-> status,
     partner_id |-> partner_id, body |-> body]

\* The balance of no partner has been asked for; the stored partner has the
\* columns' defaults.
PartnerQuiet ==
    /\ partner_rows = [p \in {1} |->
                         [current_balance |-> 0, credit_score |-> 0,
                          unset |-> {"credit_score"}]]
    /\ partner_resp = [op |-> "none", status |-> 0, partner_id |-> 0,
                       body |-> NoBody]

\* A POS request slot that serves no request; status keeps the answer of
\* the request the slot served last.
PosIdle(status) ==
    [pc |-> "idle", status |-> status, user_id |-> 0, session_id |-> 0,
     payload |-> [lines |-> <<>>, payments |-> <<>>],
     snap |-> [order_count |-> 0, total_sales |-> 0, total_payments |-> 0],
     name |-> 0]

\* No POS session, no POS order, no POS request.
PosQuiet ==
    /\ pos_sessions = <<>>
    /\ pos_orders = <<>>
    /\ pos_req = [r \in Requests |-> PosIdle(0)]

ClientIps == {"10.0.0.1"}

\* A Redis key that does not exist.
NoKey == [exists |-> FALSE, value |-> 0, expires |-> FALSE]

\* A request slot of the middleware that serves no request; status keeps
\* the answer of the request the slot served last.
LimitIdle(status) ==
    [pc |-> "idle", status |-> status, client_ip |-> "", current_count |-> 0,
     unset |-> {}]

\* Redis holds no key and no request is inside the middleware.
LimiterQuiet ==
    /\ rate_limit = [ip \in ClientIps |-> NoKey]
    /\ limit_req = [r \in Requests |-> LimitIdle(0)]

\* The handlers that have a specification of their own have not run.
AuxQuiet == ForecastQuiet /\ PartnerQuiet /\ PosQuiet /\ LimiterQuiet

\* The tables of the other modules as the inventory specifications hold them.
OtherQuiet == AccQuiet /\ SalesIdle /\ LedgerQuiet /\ AuxQuiet

Init == InvInit /\ TxnIdle /\ OtherQuiet

\* ---------------------------------------------------------------- handlers

\* POST /api/inventory/products
create_product ==
    LET db_product == NewProduct
        new_id == Cardinality(DOMAIN products) + 1
    IN  /\ IF update_virtual_available_raises(db_product)
           THEN /\ resp' = Response("create_product", 500)
                /\ UNCHANGED products
           ELSE /\ new_id <= Cardinality(ProductIds) + 1
                /\ products' = [i \in DOMAIN products \cup {new_id} |->
                       IF i = new_id
                       THEN InsertProduct(update_virtual_available(db_product))
                       ELSE products[i]]
                /\ resp' = Response("create_product", 201)
        /\ UNCHANGED <<moves, seeded, now, not_inv_vars>>

\* PUT /api/inventory/products/{product_id}.  ProductUpdate has no stock field:
\* the setattr loop leaves qty_available, qty_reserved, virtual_available.
update_product(product_id) ==
    /\ IF product_id \notin DOMAIN products
       THEN /\ resp' = Response("update_product", 404)
            /\ UNCHANGED products
       ELSE LET db_product == products[product_id]
            IN  IF update_virtual_available_raises(db_product)
                THEN /\ resp' = Response("update_product", 500)
                     /\ UNCHANGED products
                ELSE /\ products' = [products EXCEPT ![product_id] =
                            update_virtual_available(db_product)]
                     /\ resp' = Response("update_product", 200)
    /\ UNCHANGED <<moves, seeded, now, not_inv_vars>>

\* POST /api/inventory/moves
create_stock_move(pid, mt, q, up) ==
    /\ Len(moves) < MaxMoves
    /\ IF ~quantity_must_be_positive(q)
       THEN /\ resp' = Response("create_stock_move", 422)
            /\ UNCHANGED moves
       ELSE IF pid \notin DOMAIN products
       THEN /\ resp' = Response("create_stock_move", 404)
            /\ UNCHANGED moves
       ELSE /\ moves' = Append(moves,
                   InsertStockMove(calculate_total(NewStockMove(pid, mt, q, up))))
            /\ resp' = Response("create_stock_move", 201)
    /\ UNCHANGED <<products, seeded, now, not_inv_vars>>

\* POST /api/inventory/moves/{move_id}/confirm
confirm_stock_move(move_id) ==
    /\ IF move_id \notin DOMAIN moves
       THEN /\ resp' = Response("confirm", 404)
            /\ UNCHANGED moves
       ELSE /\ moves' = [moves EXCEPT ![move_id] = confirm(moves[move_id])]
            /\ resp' = Response("confirm", 200)
    /\ UNCHANGED <<products, seeded, now, not_inv_vars>>

\* POST /api/inventory/moves/{move_id}/execute
execute_stock_move(move_id) ==
    /\ IF move_id \notin DOMAIN moves
       THEN /\ resp' = Response("execute", 404)
            /\ UNCHANGED <<moves, products>>
       ELSE LET move == moves[move_id]
                product == products[move.product_id]
            IN  IF execute_raises(move)
                THEN /\ resp' = Response("execute", 400)
                     /\ UNCHANGED <<moves, products>>
                ELSE /\ products' = [products EXCEPT ![move.product_id] =
                            execute_product(move, product)]
                     /\ moves' = [moves EXCEPT ![move_id] = execute_move(move, now)]
                     /\ resp' = Response("execute", 200)
    /\ UNCHANGED <<seeded, now, not_inv_vars>>

\* The wall clock advances between requests.
Tick ==
    /\ now < MaxClock
    /\ now' = now + 1
    /\ UNCHANGED <<products, moves, seeded, resp, not_inv_vars>>

Next ==
    \/ create_product
    \/ \E p \in ProductIds \cup {3} : update_product(p)
    \/ \E m \in MovePayloads : create_stock_move(m[1], m[2], m[3], m[4])
    \/ \E id \in 1..(MaxMoves + 1) : confirm_stock_move(id)
    \/ \E id \in 1..(MaxMoves + 1) : execute_stock_move(id)
    \/ Tick

Spec == Init /\ [][Next]_vars

\* ================================================= execute, step by step
\* execute_stock_move as the session runs it: SELECT the move, move.execute()
\* (which loads move.product), commit() = flush UPDATE products, flush UPDATE
\* stock_moves, COMMIT.  Any step can be cut short (commit failure, dropped
\* connection, cancelled request): get_db rolls the session back.

\* seed_inventory_data stores moves with an explicit state (SM00004 is
\* CONFIRMED) after calculate_total().
SeedMove(m, state) ==
    InsertStockMove([calculate_total(NewStockMove(m[1], m[2], m[3], m[4]))
                        EXCEPT !.state = state, !.unset = @ \ {"state"}])

ValidPayloads ==
    {m \in MovePayloads : quantity_must_be_positive(m[3]) /\ m[1] \in ProductIds}

TxnInit ==
    /\ products \in SeededProducts
    /\ seeded = [p \in ProductIds |-> products[p].qty_available]
    /\ moves \in {<<SeedMove(a, CONFIRMED), SeedMove(b, CONFIRMED)>> :
                     a \in ValidPayloads, b \in ValidPayloads}
    /\ now = 1
    /\ resp = Response("none", 0)
    /\ TxnIdle
    /\ OtherQuiet

\* Mutant: the session runs in autocommit, each flushed UPDATE is durable.
flush_autocommit(committed, written) == written

\* A flushed UPDATE stays inside the transaction (autocommit=False): the
\* committed table is what it was.
flush(committed, written) == committed

\* Mutant: the UPDATE increments the committed row (qty_available =
\* qty_available + delta) instead of storing the value computed in Python.
commit_product_increment(committed, r) ==
    update_virtual_available(
        [committed EXCEPT !.qty_available = execute_qty(moves[r.move_id], committed)])

\* UPDATE products SET qty_available = :v, virtual_available = :w: the values
\* the session computed from the row it loaded.
commit_product(committed, r) ==
    [committed EXCEPT !.qty_available = r.product.qty_available,
                      !.virtual_available = r.product.virtual_available]

ProductsWritten(r) ==
    [products EXCEPT ![req[r].move.product_id] = commit_product(@, req[r])]

MovesWritten(r) == [moves EXCEPT ![req[r].move_id] = req[r].move]

Finish(r, status) ==
    req' = [req EXCEPT ![r] = [IdleRequest EXCEPT !.pc = "done", !.status = status,
                                                  !.move_id = req[r].move_id,
                                                  !.stage = req[r].pc]]

\* select(StockMove).where(StockMove.id == move_id)
TxnSelectMove(r, move_id) ==
    /\ req[r].pc = "idle"
    /\ IF move_id \notin DOMAIN moves
       THEN req' = [req EXCEPT ![r] = [IdleRequest EXCEPT
                        !.pc = "done", !.status = 404, !.move_id = move_id]]
       ELSE req' = [req EXCEPT ![r].pc = "selected", ![r].move_id = move_id,
                               ![r].move = moves[move_id]]
    /\ UNCHANGED <<inv_vars, delta_committed, other_vars>>

\* move.execute(): the state check on the loaded move, the load of
\* move.product, the in-memory update.  ValueError -> 400.
TxnExecute(r) ==
    /\ req[r].pc = "selected"
    /\ IF execute_raises(req[r].move)
       THEN Finish(r, 400)
       ELSE LET base == products[req[r].move.product_id]
            IN  req' = [req EXCEPT
                   ![r].pc = "dirty",
                   ![r].base = base,
                   ![r].product = execute_product(req[r].move, base),
                   ![r].move = execute_move(req[r].move, now)]
    /\ UNCHANGED <<inv_vars, delta_committed, other_vars>>

\* commit(): flush, first statement: UPDATE products.
TxnFlushProduct(r) ==
    /\ req[r].pc = "dirty"
    /\ req' = [req EXCEPT ![r].pc = "flushed_product"]
    /\ products' = flush(products, ProductsWritten(r))
    /\ delta_committed' = flush(delta_committed, delta_committed \cup {req[r].move_id})
    /\ UNCHANGED <<moves, seeded, now, resp, other_vars>>

\* commit(): flush, second statement: UPDATE stock_moves.
TxnFlushMove(r) ==
    /\ req[r].pc = "flushed_product"
    /\ req' = [req EXCEPT ![r].pc = "flushed_move"]
    /\ moves' = flush(moves, MovesWritten(r))
    /\ UNCHANGED <<products, seeded, now, resp, delta_committed, other_vars>>

\* commit(): COMMIT makes both UPDATEs durable together.
TxnCommit(r) ==
    /\ req[r].pc = "flushed_move"
    /\ products' = ProductsWritten(r)
    /\ moves' = MovesWritten(r)
    /\ delta_committed' = delta_committed \cup {req[r].move_id}
    /\ Finish(r, 200)
    /\ UNCHANGED <<seeded, now, resp, other_vars>>

\* The request is cut short: get_db's except branch rolls back.
TxnAbort(r) ==
    /\ req[r].pc \in {"selected", "dirty", "flushed_product", "flushed_move"}
    /\ Finish(r, 500)
    /\ UNCHANGED <<inv_vars, delta_committed, other_vars>>

\* The response is sent; the slot serves the next request.
TxnRespond(r) ==
    /\ req[r].pc = "done"
    /\ req' = [req EXCEPT ![r] = IdleRequest]
    /\ UNCHANGED <<inv_vars, delta_committed, other_vars>>

TxnNext ==
    \/ \E r \in Requests, id \in 1..3 : TxnSelectMove(r, id)
    \/ \E r \in Requests : TxnExecute(r)
    \/ \E r \in Requests : TxnFlushProduct(r)
    \/ \E r \in Requests : TxnFlushMove(r)
    \/ \E r \in Requests : TxnCommit(r)
    \/ \E r \in Requests : TxnAbort(r)
    \/ \E r \in Requests : TxnRespond(r)

SpecTxn == TxnInit /\ [][TxnNext]_vars

\* ======================================================= inventory claims
Transitions ==
    {<<DRAFT, CONFIRMED>>, <<CONFIRMED, DONE>>,
     <<DRAFT, CANCELLED>>, <<CONFIRMED, CANCELLED>>}

\* The quantity StockMove.execute is specified to leave on a product.
Expected_qty(m, a) ==
    CASE m.move_type = TYPE_IN -> a + m.quantity
      [] m.move_type = TYPE_OUT -> a - m.quantity
      [] m.move_type = TYPE_INTERNAL -> a

RECURSIVE SumDone(_, _, _)
\* Sum of the quantities of the first n moves that are DONE, of type mt, on p.
SumDone(n, p, mt) ==
    IF n = 0 THEN 0
    ELSE SumDone(n - 1, p, mt)
         + (IF moves[n].state = DONE /\ moves[n].product_id = p
               /\ moves[n].move_type = mt
            THEN moves[n].quantity ELSE 0)

\* C1: an execute request for a move that is not CONFIRMED (DRAFT, DONE or
\* CANCELLED) is answered 400 and changes neither the move (state, done_date)
\* nor any product (qty_available, virtual_available).
C1_ExecuteRejectedUnlessConfirmed ==
    [][\A id \in DOMAIN moves :
          (execute_stock_move(id) /\ moves[id].state # CONFIRMED)
          => /\ resp'.status = 400
             /\ moves' = moves
             /\ products' = products]_vars

\* C1 witness: the only stored move is DRAFT and its execute was refused.
C1_Witness ==
    /\ Len(moves) = 1
    /\ moves[1].state = DRAFT
    /\ resp = Response("execute", 400)

\* C2: a successful execute of a CONFIRMED move of quantity q on a product
\* with on-hand a and reserved r leaves qty_available = a+q (IN), a-q (OUT),
\* a (INTERNAL), virtual_available = qty_available - r, state DONE and
\* done_date stamped with the current time.
C2_ExecuteApplies ==
    [][\A id \in DOMAIN moves :
          (execute_stock_move(id) /\ moves[id].state = CONFIRMED)
          => LET m == moves[id]
                 p == products[m.product_id]
                 new == Expected_qty(m, p.qty_available)
             IN  /\ resp'.status = 200
                 /\ products'[m.product_id].qty_available = new
                 /\ products'[m.product_id].virtual_available = new - p.qty_reserved
                 /\ products'[m.product_id].qty_reserved = p.qty_reserved
                 /\ moves'[id].state = DONE
                 /\ moves'[id].done_date = now
                 /\ moves'[id].done_date # NullDate]_vars

\* C2 witness: IN, q=10 on a=5, r=0 gave 15 / 15 / DONE.
C2_Witness ==
    /\ Len(moves) = 1
    /\ moves[1].move_type = TYPE_IN /\ moves[1].quantity = 10
    /\ moves[1].product_id = 1 /\ moves[1].state = DONE
    /\ seeded[1] = 5 /\ products[1].qty_reserved = 0
    /\ products[1].qty_available = 15 /\ products[1].virtual_available = 15
    /\ resp = Response("execute", 200)

\* C4: quantity conservation: every product's qty_available is its seeded
\* value plus the quantities of its DONE IN moves minus those of its DONE OUT
\* moves (each delta applied once, non-DONE moves contribute nothing).
C4_QuantityConservation ==
    \A p \in DOMAIN products :
        p \in DOMAIN seeded =>
            products[p].qty_available =
                seeded[p] + SumDone(Len(moves), p, TYPE_IN)
                          - SumDone(Len(moves), p, TYPE_OUT)

\* C4 witness: an IN and an OUT move of product 1 are both DONE and a
\* repeated execute has just been refused.
C4_Witness ==
    /\ Len(moves) = 2
    /\ \A i \in 1..2 : moves[i].state = DONE /\ moves[i].product_id = 1
    /\ {moves[1].move_type, moves[2].move_type} = {TYPE_IN, TYPE_OUT}
    /\ resp = Response("execute", 400)

\* C5: a move changes state only DRAFT->CONFIRMED (in a confirm request),
\* CONFIRMED->DONE (in an execute request) or DRAFT/CONFIRMED->CANCELLED,
\* and a DONE move never changes its state or quantity again.
C5_TransitionsAndDoneTerminal ==
    [][\A id \in DOMAIN moves :
          /\ id \in DOMAIN moves'
          /\ moves'[id].state # moves[id].state
                => /\ <<moves[id].state, moves'[id].state>> \in Transitions
                   /\ moves'[id].state = CONFIRMED => resp'.op = "confirm"
                   /\ moves'[id].state = DONE => resp'.op = "execute"
          /\ moves[id].state = DONE
                => /\ moves'[id].state = DONE
                   /\ moves'[id].quantity = moves[id].quantity]_vars

\* C5 witness: a confirm request has just been served on a DONE move.
C5_Witness ==
    /\ Len(moves) = 1
    /\ moves[1].state = DONE
    /\ resp = Response("confirm", 200)

\* C6 (as claimed): confirm from DRAFT sets CONFIRMED; confirm in any other
\* state is answered with an error and leaves the move unchanged.
C6_ConfirmRejectedUnlessDraft ==
    [][\A id \in DOMAIN moves :
          confirm_stock_move(id)
          => IF moves[id].state = DRAFT
             THEN moves'[id].state = CONFIRMED /\ resp'.status = 200
             ELSE resp'.status = 400 /\ moves' = moves]_vars

\* C8: every stored move has total_value = quantity * unit_price.
C8_TotalValue ==
    \A id \in DOMAIN moves :
        moves[id].total_value = moves[id].quantity * moves[id].unit_price

\* C8 witness: a priced move went through confirm and execute.
C8_Witness ==
    \E id \in DOMAIN moves :
        /\ moves[id].state = DONE
        /\ moves[id].unit_price = 7 /\ moves[id].quantity = 10
        /\ moves[id].total_value = 70

\* C9 (as claimed): every stored product has virtual_available =
\* qty_available - qty_reserved, and create_product succeeds.
C9_VirtualAvailable ==
    /\ \A p \in DOMAIN products :
           products[p].virtual_available =
               products[p].qty_available - products[p].qty_reserved
    /\ resp.op = "create_product" => resp.status = 201

\* ============================================ claims on the stepwise execute
\* C3: no partial execution.  In every committed state, also while requests
\* overlap and after a request was cut short between its two UPDATEs, a move
\* is DONE exactly when the product UPDATE carrying its delta is committed,
\* and a product none of whose moves is DONE still has its seeded quantity.
C3_NoPartialExecution ==
    /\ \A id \in DOMAIN moves :
           moves[id].state = DONE <=> id \in delta_committed
    /\ \A p \in DOMAIN products :
           (\A id \in DOMAIN moves :
                moves[id].product_id = p => moves[id].state # DONE)
           => /\ products[p].qty_available = seeded[p]
              /\ products[p].virtual_available = seeded[p] - products[p].qty_reserved

\* C3 witness: a request was cut short after UPDATE products and before
\* UPDATE stock_moves; the move is still CONFIRMED and its product untouched.
C3_Witness ==
    \E r \in Requests :
        /\ req[r].pc = "done" /\ req[r].status = 500
        /\ req[r].stage = "flushed_product"
        /\ moves[req[r].move_id].state = CONFIRMED
        /\ moves[req[r].move_id].move_type = TYPE_IN
        /\ req[r].move_id \notin delta_committed
        /\ products[moves[req[r].move_id].product_id].qty_available
               = seeded[moves[req[r].move_id].product_id]

\* C7: the read-modify-write is unlocked.  A commit stores the quantity the
\* request computed from the product row it loaded, whatever has been
\* committed to that row since, and marks the move DONE.
C7_UnlockedReadModifyWrite ==
    [][\A r \in Requests :
          TxnCommit(r)
          => LET m == req[r].move
             IN  /\ products'[m.product_id].qty_available
                        = Expected_qty(m, req[r].base.qty_available)
                 /\ moves'[req[r].move_id].state = DONE]_vars

\* C7 witness (lost update): two requests for two different moves of one
\* product both committed, both moves are DONE, and qty_available holds the
\* delta of move 2 only.
C7_Witness ==
    /\ req[1].pc = "done" /\ req[1].status = 200
    /\ req[2].pc = "done" /\ req[2].status = 200
    /\ req[1].move_id # req[2].move_id
    /\ moves[1].state = DONE /\ moves[2].state = DONE
    /\ moves[1].product_id = moves[2].product_id
    /\ moves[1].move_type # TYPE_INTERNAL /\ moves[2].move_type # TYPE_INTERNAL
    /\ LET p == moves[1].product_id
       IN  /\ products[p].qty_available = Expected_qty(moves[2], seeded[p])
           /\ products[p].qty_available
                  # Expected_qty(moves[2], Expected_qty(moves[1], seeded[p]))

\* ============================================================= accounting
\* Invoice line payloads as posted: unit prices are multiples of 100 so that
\* amount * (rate / 100.0) is exact; the first carries a discount_rate of 10
\* (a key InvoiceLineCreate does not declare), one has a negative price and a
\* withholding, one the quantity 0 that the validator rejects.
LineInputs ==
    {[quantity |-> 10, unit_price |-> 100, vat_rate |-> 20, withholding_rate |-> 0,
      discount_rate |-> 10],
     [quantity |-> 3, unit_price |-> -100, vat_rate |-> 20, withholding_rate |-> 50,
      discount_rate |-> 0],
     [quantity |-> 0, unit_price |-> 100, vat_rate |-> 20, withholding_rate |-> 0,
      discount_rate |-> 0]}

RECURSIVE SeqsUpTo(_, _)
\* The sequences over S of length at most n.
SeqsUpTo(S, n) ==
    IF n = 0 THEN {<<>>}
    ELSE LET shorter == SeqsUpTo(S, n - 1)
         IN  shorter \cup {Append(q, x) : q \in shorter, x \in S}

\* The caller-supplied flat subtotal / vat_amount / total_amount.
FlatAmounts == {<<0, 0, 0>>, <<500, 90, 7>>}

InvoiceNumbers == {"F1", "F2"}

\* InvoiceCreate payloads.
InvoicePayloads ==
    {[invoice_number |-> n, company_id |-> c, partner_id |-> pa,
      subtotal |-> f[1], vat_amount |-> f[2], total_amount |-> f[3], lines |-> ls] :
        n \in InvoiceNumbers, c \in {1, 2}, pa \in {1, 2}, f \in FlatAmounts,
        ls \in SeqsUpTo(LineInputs, MaxLines)}

\* amount * (rate / 100.0)
Percent(amount, rate) == (amount * rate) \div 100

\* InvoiceLineCreate.quantity_positive
quantity_positive(q) == q > 0

\* Mutant: the schema folds the posted discount_rate into the unit price.
InvoiceLineCreate_discounting(raw) ==
    [quantity |-> raw.quantity,
     unit_price |-> (raw.unit_price * (100 - raw.discount_rate)) \div 100,
     vat_rate |-> raw.vat_rate, withholding_rate |-> raw.withholding_rate]

\* InvoiceLineCreate(**raw): pydantic keeps the declared fields and ignores
\* every other key of the posted object.
InvoiceLineCreate(raw) ==
    [quantity |-> raw.quantity, unit_price |-> raw.unit_price,
     vat_rate |-> raw.vat_rate, withholding_rate |-> raw.withholding_rate]

\* InvoiceCreate(**payload): every element of lines parsed as InvoiceLineCreate.
InvoiceCreate(payload) ==
    [payload EXCEPT !.lines = [k \in DOMAIN payload.lines |->
                                  InvoiceLineCreate(payload.lines[k])]]

\* Mutant: the withholding is not subtracted from the line total.
InvoiceLine_no_withholding(line_data) ==
    LET line_subtotal == line_data.quantity * line_data.unit_price
        line_vat == Percent(line_subtotal, line_data.vat_rate)
        line_withholding == Percent(line_subtotal, line_data.withholding_rate)
    IN  [quantity |-> line_data.quantity, unit_price |-> line_data.unit_price,
         vat_rate |-> line_data.vat_rate, vat_amount |-> line_vat,
         withholding_rate |-> line_data.withholding_rate,
         withholding_amount |-> line_withholding,
         line_total |-> line_subtotal + line_vat]

\* The InvoiceLine the loop of create_invoice builds from one line_data.
InvoiceLine(line_data) ==
    LET line_subtotal == line_data.quantity * line_data.unit_price
        line_vat == Percent(line_subtotal, line_data.vat_rate)
        line_withholding == Percent(line_subtotal, line_data.withholding_rate)
        line_total == line_subtotal + line_vat - line_withholding
    IN  [quantity |-> line_data.quantity, unit_price |-> line_data.unit_price,
         vat_rate |-> line_data.vat_rate, vat_amount |-> line_vat,
         withholding_rate |-> line_data.withholding_rate,
         withholding_amount |-> line_withholding,
         line_total |-> line_total]

RECURSIVE InvoiceLoop(_, _, _)
\* The loop of create_invoice from line i on: acc holds invoice.lines and the
\* running subtotal, total_vat, total_withholding.
InvoiceLoop(lines, i, acc) ==
    IF i > Len(lines) THEN acc
    ELSE LET line == InvoiceLine(lines[i])
         IN  InvoiceLoop(lines, i + 1,
                 [lines |-> Append(acc.lines, line),
                  subtotal |-> acc.subtotal + lines[i].quantity * lines[i].unit_price,
                  total_vat |-> acc.total_vat + line.vat_amount,
                  total_withholding |-> acc.total_withholding + line.withholding_amount])

\* Mutant: the flat amounts are the starting values of the sums over the lines.
BuildInvoice_mixed(invoice_data, company_id) ==
    LET looped == InvoiceLoop(invoice_data.lines, 1,
                      [lines |-> <<>>, subtotal |-> invoice_data.subtotal,
                       total_vat |-> invoice_data.vat_amount,
                       total_withholding |-> 0])
    IN  [invoice_number |-> invoice_data.invoice_number,
         company_id |-> company_id,
         partner_id |-> invoice_data.partner_id,
         subtotal |-> looped.subtotal,
         vat_amount |-> looped.total_vat,
         total_amount |-> looped.subtotal + looped.total_vat
                              - looped.total_withholding,
         lines |-> looped.lines]

\* The Invoice create_invoice adds to the session.
BuildInvoice(invoice_data, company_id) ==
    LET looped == InvoiceLoop(invoice_data.lines, 1,
                      [lines |-> <<>>, subtotal |-> 0, total_vat |-> 0,
                       total_withholding |-> 0])
        flat == invoice_data.lines = <<>>
        subtotal == IF flat THEN invoice_data.subtotal ELSE looped.subtotal
        total_vat == IF flat THEN invoice_data.vat_amount ELSE looped.total_vat
        total_withholding == IF flat THEN 0 ELSE looped.total_withholding
    IN  [invoice_number |-> invoice_data.invoice_number,
         company_id |-> company_id,
         partner_id |-> invoice_data.partner_id,
         subtotal |-> subtotal,
         vat_amount |-> total_vat,
         total_amount |-> subtotal + total_vat - total_withholding,
         lines |-> looped.lines]

\* ensure_default_company: the first stored company, or a new one.
DefaultCompanies ==
    IF companies # {} THEN companies ELSE {1}

\* The company the service layer goes on with: the one asked for, or for a
\* missing company 1 the one ensure_default_company returns.
InvoiceCompanies(invoice_data) ==
    IF invoice_data.company_id \in companies
    THEN {invoice_data.company_id}
    ELSE DefaultCompanies

\* Mutant: the session is committed although the request failed.
rollback_keeps_flushed(committed, flushed) == flushed

\* get_db on an exception raised by the handler: session.rollback() discards
\* what the session has flushed and leaves the committed table.
rollback(committed, flushed) == committed

\* POST /api/v1/accounting/invoices (router and service layer).  A failed
\* request is rolled back by get_db: a default company it created is gone.
create_invoice(payload) ==
  LET invoice_data == InvoiceCreate(payload) IN
    /\ IF \E i \in DOMAIN invoice_data.lines :
              ~quantity_positive(invoice_data.lines[i].quantity)
       THEN /\ acc_resp' = Response("create_invoice", 422)
            /\ UNCHANGED <<companies, invoices>>
       ELSE IF invoice_data.company_id \notin companies /\ invoice_data.company_id # 1
       THEN /\ acc_resp' = Response("create_invoice", 404)
            /\ UNCHANGED <<companies, invoices>>
       ELSE IF invoice_data.partner_id \notin partners
       THEN \E company_id \in InvoiceCompanies(invoice_data) :
               /\ acc_resp' = Response("create_invoice", 404)
               /\ companies' = rollback(companies, companies \cup {company_id})
               /\ UNCHANGED invoices
       ELSE IF \E i \in DOMAIN invoices :
                  invoices[i].invoice_number = invoice_data.invoice_number
       THEN \E company_id \in InvoiceCompanies(invoice_data) :
               /\ acc_resp' = Response("create_invoice", 500)
               /\ companies' = rollback(companies, companies \cup {company_id})
               /\ UNCHANGED invoices
       ELSE \E company_id \in InvoiceCompanies(invoice_data) :
               /\ companies' = companies \cup {company_id}
               /\ invoices' = Append(invoices, BuildInvoice(invoice_data, company_id))
               /\ acc_resp' = Response("create_invoice", 201)
    /\ UNCHANGED <<partners, not_acc_vars>>

\* The inventory tables as the accounting specification holds them.
InvQuiet ==
    /\ products = [p \in ProductIds |-> SeedProduct(5, 0)]
    /\ seeded = [p \in ProductIds |-> 5]
    /\ moves = <<>>
    /\ now = 1
    /\ resp = Response("none", 0)

AccInit == InvQuiet /\ TxnIdle /\ AccIdle /\ SalesIdle /\ LedgerQuiet /\ AuxQuiet

AccNext == \E payload \in InvoicePayloads : create_invoice(payload)

SpecAcc == AccInit /\ [][AccNext]_vars

\* ====================================================== accounting claims
RECURSIVE SumLines(_, _, _)
\* Sum over the first n lines of F(line).
SumLines(F(_), lines, n) ==
    IF n = 0 THEN 0 ELSE SumLines(F, lines, n - 1) + F(lines[n])

LineGross(l) == l.quantity * l.unit_price
LineVat(l) == l.vat_amount
LineTotal(l) == l.line_total

\* C10: for every stored invoice created with lines, each line has
\* vat_amount = quantity*unit_price*vat_rate/100, withholding_amount =
\* quantity*unit_price*withholding_rate/100 and line_total = quantity*unit_price
\* + vat_amount - withholding_amount, and the invoice has subtotal = sum of
\* quantity*unit_price, vat_amount = sum of the lines' vat_amount and
\* total_amount = sum of the lines' line_total.
C10_InvoiceLineTotals ==
    \A i \in DOMAIN invoices :
        LET inv == invoices[i]
            n == Len(inv.lines)
        IN  n > 0 =>
            /\ \A k \in 1..n :
                   LET l == inv.lines[k]
                   IN  /\ 100 * l.vat_amount = l.quantity * l.unit_price * l.vat_rate
                       /\ 100 * l.withholding_amount
                              = l.quantity * l.unit_price * l.withholding_rate
                       /\ l.line_total = l.quantity * l.unit_price + l.vat_amount
                                             - l.withholding_amount
            /\ inv.subtotal = SumLines(LineGross, inv.lines, n)
            /\ inv.vat_amount = SumLines(LineVat, inv.lines, n)
            /\ inv.total_amount = SumLines(LineTotal, inv.lines, n)

\* C10 witness: an invoice of two lines, 10 x 100 at 20% VAT (1200) and
\* 3 x -100 at 20% VAT with 50% withholding (-300 - 60 + 150 = -210).
C10_Witness ==
    \E i \in DOMAIN invoices :
        /\ Len(invoices[i].lines) = 2
        /\ invoices[i].lines[1].line_total = 1200
        /\ invoices[i].lines[2].withholding_amount = -150
        /\ invoices[i].lines[2].line_total = -210
        /\ invoices[i].subtotal = 700
        /\ invoices[i].vat_amount = 140
        /\ invoices[i].total_amount = 990
        /\ acc_resp = Response("create_invoice", 201)

\* The step is a create_invoice(payload) that stored an invoice.
InvoiceCreated(payload) ==
    /\ invoices'[Len(invoices')].invoice_number = payload.invoice_number
    /\ create_invoice(payload)

C15_LinesOrFlat ==
    [][invoices' # invoices =>
       \A payload \in InvoicePayloads :
          InvoiceCreated(payload)
          => LET inv == invoices'[Len(invoices')]
                 n == Len(inv.lines)
             IN  IF payload.lines # <<>>
                 THEN /\ n = Len(payload.lines)
                      /\ inv.subtotal = SumLines(LineGross, inv.lines, n)
                      /\ inv.vat_amount = SumLines(LineVat, inv.lines, n)
                      /\ inv.total_amount = SumLines(LineTotal, inv.lines, n)
                 ELSE /\ n = 0
                      /\ inv.subtotal = payload.subtotal
                      /\ inv.vat_amount = payload.vat_amount
                      /\ inv.total_amount = payload.subtotal + payload.vat_amount]_vars

\* C15 witness: one invoice stored without lines from the flat amounts 500 and
\* 90 (caller's total 7, stored total 590), one stored with a line (1000,
\* 200, 1200), whose payload carried flat amounts too.
C15_Witness ==
    /\ <<500, 90, 7>> \in FlatAmounts
    /\ \E i, j \in DOMAIN invoices :
           /\ invoices[i].lines = <<>>
           /\ invoices[i].subtotal = 500
           /\ invoices[i].vat_amount = 90
           /\ invoices[i].total_amount = 590
           /\ Len(invoices[j].lines) = 1
           /\ invoices[j].subtotal = 1000
           /\ invoices[j].vat_amount = 200
           /\ invoices[j].total_amount = 1200

\* ================================================================== sales
\* SalesOrderState (DRAFT, CONFIRMED and CANCELLED have the values of the
\* stock move states of the same names).
QUOTATION == "quotation"
DELIVERED == "delivered"
SalesOrderState == {DRAFT, QUOTATION, CONFIRMED, DELIVERED, CANCELLED}

\* SalesOrderLineCreate payloads: the spec's example (5 x 200 at 20%), a line
\* with a 10% discount, a negative unit price, and a quantity 0.
SalesLineA == [quantity |-> 5, unit_price |-> 200, discount |-> 0, tax_rate |-> 20]
SalesLineB == [quantity |-> 2, unit_price |-> 100, discount |-> 10, tax_rate |-> 20]
SalesLineN == [quantity |-> 3, unit_price |-> -100, discount |-> 0, tax_rate |-> 20]
SalesLineZ == [quantity |-> 0, unit_price |-> 100, discount |-> 0, tax_rate |-> 20]

\* SalesOrderCreate payloads.
OrderPayloads ==
    {[customer_id |-> 1, amount_discount |-> 0, lines |-> <<>>],
     [customer_id |-> 1, amount_discount |-> 0, lines |-> <<SalesLineA>>],
     [customer_id |-> 1, amount_discount |-> 50, lines |-> <<SalesLineA, SalesLineB>>],
     [customer_id |-> 2, amount_discount |-> 0, lines |-> <<SalesLineA>>],
     [customer_id |-> 1, amount_discount |-> 0, lines |-> <<SalesLineA, SalesLineZ>>]}

\* A SalesOrderUpdate payload: fields_set holds the keys the request body
\* has (model_dump(exclude_unset=True) keeps exactly these), unset the keys
\* whose value is null.
OrderUpdate(fields_set, state, amount_discount, lines, nulls) ==
    [fields_set |-> fields_set, state |-> state,
     amount_discount |-> amount_discount, lines |-> lines, unset |-> nulls]

OrderUpdatePayloads ==
    {OrderUpdate({}, DRAFT, 0, <<>>, {}),
     OrderUpdate({"amount_discount"}, DRAFT, 50, <<>>, {}),
     OrderUpdate({"amount_discount"}, DRAFT, 0, <<>>, {"amount_discount"}),
     OrderUpdate({"lines"}, DRAFT, 0, <<SalesLineA>>, {}),
     OrderUpdate({"lines", "amount_discount"}, DRAFT, 50,
                 <<SalesLineA, SalesLineB>>, {}),
     OrderUpdate({"lines"}, DRAFT, 0, <<SalesLineA, SalesLineZ>>, {}),
     OrderUpdate({"state"}, QUOTATION, 0, <<>>, {}),
     OrderUpdate({"state"}, CONFIRMED, 0, <<>>, {}),
     OrderUpdate({"state"}, DELIVERED, 0, <<>>, {})}

OrderIds == {1, 2}

\* Mutant: the validator rejects negative quantities only.
lines_valid_nonnegative(lines) == \A k \in DOMAIN lines : lines[k].quantity >= 0

\* SalesOrderLineBase.quantity_must_be_positive, over the lines of a payload.
lines_valid(lines) == \A k \in DOMAIN lines : lines[k].quantity > 0

\* Mutant: the tax is computed from the gross, before the discount.
calculate_prices_tax_on_gross(l) ==
    LET gross == l.quantity * l.unit_price
        discount_amount == Percent(gross, l.discount)
        price_subtotal == gross - discount_amount
        price_tax == Percent(gross, l.tax_rate)
    IN  [l EXCEPT !.price_subtotal = price_subtotal, !.price_tax = price_tax,
                  !.price_total = price_subtotal + price_tax]

\* SalesOrderLine.calculate_prices
calculate_prices(l) ==
    LET gross == l.quantity * l.unit_price
        discount_amount == Percent(gross, l.discount)
        price_subtotal == gross - discount_amount
        price_tax == Percent(price_subtotal, l.tax_rate)
    IN  [l EXCEPT !.price_subtotal = price_subtotal, !.price_tax = price_tax,
                  !.price_total = price_subtotal + price_tax]

\* SalesOrderLine(**line_data.model_dump(), sequence=idx * 10)
NewSalesOrderLine(line_data, idx) ==
    [quantity |-> line_data.quantity, unit_price |-> line_data.unit_price,
     discount |-> line_data.discount, tax_rate |-> line_data.tax_rate,
     sequence |-> idx * 10,
     price_subtotal |-> 0, price_tax |-> 0, price_total |-> 0]

\* The loop of create_sales_order and update_sales_order over the payload lines.
OrderLines(lines) ==
    [idx \in DOMAIN lines |-> calculate_prices(NewSalesOrderLine(lines[idx], idx))]

RECURSIVE sum_price_subtotal(_, _)
\* sum(line.price_subtotal for line in lines), over the first n lines.
sum_price_subtotal(lines, n) ==
    IF n = 0 THEN 0 ELSE sum_price_subtotal(lines, n - 1) + lines[n].price_subtotal

RECURSIVE sum_price_tax(_, _)
\* sum(line.price_tax for line in lines), over the first n lines.
sum_price_tax(lines, n) ==
    IF n = 0 THEN 0 ELSE sum_price_tax(lines, n - 1) + lines[n].price_tax

\* Mutant: the sums are added to the stored amounts.
calculate_totals_accumulating(o) ==
    LET amount_untaxed == o.amount_untaxed
                              + sum_price_subtotal(o.lines, Len(o.lines))
        amount_tax == o.amount_tax + sum_price_tax(o.lines, Len(o.lines))
        discount == IF IsNone(o, "amount_discount") THEN 0 ELSE o.amount_discount
    IN  [o EXCEPT !.amount_untaxed = amount_untaxed, !.amount_tax = amount_tax,
                  !.amount_total = amount_untaxed + amount_tax - discount]

\* SalesOrder.calculate_totals
calculate_totals(o) ==
    LET amount_untaxed == sum_price_subtotal(o.lines, Len(o.lines))
        amount_tax == sum_price_tax(o.lines, Len(o.lines))
        discount == IF IsNone(o, "amount_discount") THEN 0 ELSE o.amount_discount
    IN  [o EXCEPT !.amount_untaxed = amount_untaxed, !.amount_tax = amount_tax,
                  !.amount_total = amount_untaxed + amount_tax - discount]

\* SalesOrder.confirm_order
confirm_order(o, t) ==
    IF o.state \in {DRAFT, QUOTATION}
    THEN [o EXCEPT !.state = CONFIRMED, !.confirmation_date = t]
    ELSE o

\* generate_order_name: "SO" followed by count + 1, zero-padded to five digits.
generate_order_name(count) == <<"SO", count + 1>>

\* SalesOrder(**order_data, name=order_name) as INSERTed with no line: state
\* takes its default DRAFT, the amounts 0.0, confirmation_date stays NULL.
\* unset holds the columns that are NULL.
NewSalesOrder(order, order_name) ==
    [name |-> order_name, state |-> DRAFT, customer_id |-> order.customer_id,
     amount_discount |-> order.amount_discount,
     amount_untaxed |-> 0, amount_tax |-> 0, amount_total |-> 0,
     confirmation_date |-> NullDate, lines |-> <<>>, unset |-> {}]

\* POST /orders
create_sales_order(order) ==
    /\ IF ~lines_valid(order.lines)
       THEN /\ sales_resp' = Response("create_sales_order", 422)
            /\ UNCHANGED <<orders, order_seq>>
       ELSE IF order.customer_id \notin customers
       THEN /\ sales_resp' = Response("create_sales_order", 404)
            /\ UNCHANGED <<orders, order_seq>>
       ELSE LET count == Cardinality(DOMAIN orders)
                order_name == generate_order_name(count)
                db_order == calculate_totals(
                    [NewSalesOrder(order, order_name)
                        EXCEPT !.lines = OrderLines(order.lines)])
                id == order_seq + 1
            IN  IF \E i \in DOMAIN orders : orders[i].name = order_name
                THEN \* INSERT violates the unique index on sales_orders.name
                     /\ sales_resp' = Response("create_sales_order", 500)
                     /\ UNCHANGED <<orders, order_seq>>
                ELSE /\ id \in OrderIds
                     /\ orders' = [i \in DOMAIN orders \cup {id} |->
                            IF i = id THEN db_order ELSE orders[i]]
                     /\ order_seq' = id
                     /\ sales_resp' = Response("create_sales_order", 201)
    /\ UNCHANGED <<customers, not_sales_vars>>

\* The setattr loop of update_sales_order over the fields of the request
\* body other than lines.
SetOrderFields(o, order_update) ==
    LET with_state ==
            IF "state" \in order_update.fields_set
            THEN [o EXCEPT !.state = order_update.state] ELSE o
    IN  IF "amount_discount" \in order_update.fields_set
        THEN [with_state EXCEPT
                 !.amount_discount = order_update.amount_discount,
                 !.unset = IF IsNone(order_update, "amount_discount")
                           THEN @ \cup {"amount_discount"}
                           ELSE @ \ {"amount_discount"}]
        ELSE with_state

\* PUT /orders/{order_id}
update_sales_order(order_id, order_update) ==
    /\ IF "lines" \in order_update.fields_set /\ ~lines_valid(order_update.lines)
       THEN /\ sales_resp' = Response("update_sales_order", 422)
            /\ UNCHANGED orders
       ELSE IF order_id \notin DOMAIN orders
       THEN /\ sales_resp' = Response("update_sales_order", 404)
            /\ UNCHANGED orders
       ELSE IF orders[order_id].state \notin {DRAFT, QUOTATION}
       THEN /\ sales_resp' = Response("update_sales_order", 400)
            /\ UNCHANGED orders
       ELSE LET updated == SetOrderFields(orders[order_id], order_update)
                db_order ==
                    IF "lines" \in order_update.fields_set
                    THEN calculate_totals(
                             [updated EXCEPT !.lines = OrderLines(order_update.lines)])
                    ELSE updated
            IN  /\ orders' = [orders EXCEPT ![order_id] = db_order]
                /\ sales_resp' = Response("update_sales_order", 200)
    /\ UNCHANGED <<customers, order_seq, not_sales_vars>>

\* POST /orders/{order_id}/confirm
confirm_sales_order(order_id) ==
    /\ IF order_id \notin DOMAIN orders
       THEN /\ sales_resp' = Response("confirm_sales_order", 404)
            /\ UNCHANGED orders
       ELSE IF orders[order_id].state \notin {DRAFT, QUOTATION}
       THEN /\ sales_resp' = Response("confirm_sales_order", 400)
            /\ UNCHANGED orders
       ELSE /\ orders' = [orders EXCEPT ![order_id] = confirm_order(@, now)]
            /\ sales_resp' = Response("confirm_sales_order", 200)
    /\ UNCHANGED <<customers, order_seq, not_sales_vars>>

\* POST /orders/{order_id}/cancel
cancel_sales_order(order_id) ==
    /\ IF order_id \notin DOMAIN orders
       THEN /\ sales_resp' = Response("cancel_sales_order", 404)
            /\ UNCHANGED orders
       ELSE IF orders[order_id].state = DELIVERED
       THEN /\ sales_resp' = Response("cancel_sales_order", 400)
            /\ UNCHANGED orders
       ELSE /\ orders' = [orders EXCEPT ![order_id].state = CANCELLED]
            /\ sales_resp' = Response("cancel_sales_order", 200)
    /\ UNCHANGED <<customers, order_seq, not_sales_vars>>

\* Mutant: an order is deleted whatever its state.
delete_sales_order_any_state(order_id) ==
    /\ IF order_id \notin DOMAIN orders
       THEN /\ sales_resp' = Response("delete_sales_order", 404)
            /\ UNCHANGED orders
       ELSE /\ orders' = [i \in DOMAIN orders \ {order_id} |-> orders[i]]
            /\ sales_resp' = Response("delete_sales_order", 204)
    /\ UNCHANGED <<customers, order_seq, not_sales_vars>>

\* DELETE /orders/{order_id}
delete_sales_order(order_id) ==
    /\ IF order_id \notin DOMAIN orders
       THEN /\ sales_resp' = Response("delete_sales_order", 404)
            /\ UNCHANGED orders
       ELSE IF orders[order_id].state # DRAFT
       THEN /\ sales_resp' = Response("delete_sales_order", 400)
            /\ UNCHANGED orders
       ELSE /\ orders' = [i \in DOMAIN orders \ {order_id} |-> orders[i]]
            /\ sales_resp' = Response("delete_sales_order", 204)
    /\ UNCHANGED <<customers, order_seq, not_sales_vars>>

\* The inventory and accounting tables as the sales specification holds them.
SalesInit == InvQuiet /\ TxnIdle /\ AccQuiet /\ SalesIdle /\ LedgerQuiet /\ AuxQuiet

SalesNext ==
    \/ \E order \in OrderPayloads : create_sales_order(order)
    \/ \E id \in OrderIds, order_update \in OrderUpdatePayloads :
           update_sales_order(id, order_update)
    \/ \E id \in OrderIds : confirm_sales_order(id)
    \/ \E id \in OrderIds : cancel_sales_order(id)
    \/ \E id \in OrderIds : delete_sales_order(id)

SpecSales == SalesInit /\ [][SalesNext]_vars

\* =========================================================== sales claims
\* C12: every stored sales-order line has price_subtotal = quantity *
\* unit_price * (1 - discount/100), price_tax = price_subtotal * tax_rate/100
\* and price_total = price_subtotal + price_tax (nothing is withheld).
C12_SalesLinePrices ==
    \A id \in DOMAIN orders :
        \A k \in DOMAIN orders[id].lines :
            LET l == orders[id].lines[k]
            IN  /\ 100 * l.price_subtotal
                       = l.quantity * l.unit_price * (100 - l.discount)
                /\ 100 * l.price_tax = l.price_subtotal * l.tax_rate
                /\ l.price_total = l.price_subtotal + l.price_tax

\* C12 witness: an order holds the line 5 x 200 at 20% with no discount
\* (1000, 200, 1200) and the line 2 x 100 at 20% with a 10% discount
\* (180, 36, 216).
C12_Witness ==
    \E id \in DOMAIN orders :
        /\ Len(orders[id].lines) = 2
        /\ LET a == orders[id].lines[1]
               b == orders[id].lines[2]
           IN  /\ a.quantity = 5 /\ a.unit_price = 200 /\ a.discount = 0
               /\ a.price_subtotal = 1000 /\ a.price_tax = 200
               /\ a.price_total = 1200
               /\ b.discount = 10 /\ b.price_subtotal = 180
               /\ b.price_tax = 36 /\ b.price_total = 216

LineSubtotal(l) == l.price_subtotal
LineTax(l) == l.price_tax

\* C13: every stored sales order has amount_untaxed = the sum of its lines'
\* price_subtotal, amount_tax = the sum of its lines' price_tax and
\* amount_total = amount_untaxed + amount_tax - amount_discount (a NULL
\* amount_discount counting as 0).
C13_OrderTotals ==
    \A id \in DOMAIN orders :
        LET o == orders[id]
            n == Len(o.lines)
            discount == IF IsNone(o, "amount_discount") THEN 0 ELSE o.amount_discount
        IN  /\ o.amount_untaxed = SumLines(LineSubtotal, o.lines, n)
            /\ o.amount_tax = SumLines(LineTax, o.lines, n)
            /\ o.amount_total = o.amount_untaxed + o.amount_tax - discount

\* C14: recomputing the totals is idempotent.  For every stored order,
\* calculate_totals applied twice to its unchanged lines and amount_discount
\* leaves the same amount_untaxed, amount_tax and amount_total as applied once.
C14_TotalsIdempotent ==
    \A id \in DOMAIN orders :
        LET once == calculate_totals(orders[id])
            twice == calculate_totals(once)
        IN  /\ twice.amount_untaxed = once.amount_untaxed
            /\ twice.amount_tax = once.amount_tax
            /\ twice.amount_total = once.amount_total
            /\ twice.lines = orders[id].lines
            /\ twice.amount_discount = orders[id].amount_discount

\* C14 witness: a stored order with a line whose stored amount_total is stale
\* (1200 with an amount_discount of 50), so that the first recomputation
\* changes it (to 1150) and the second has something to keep.
C14_Witness ==
    \E id \in DOMAIN orders :
        /\ Len(orders[id].lines) = 1
        /\ orders[id].amount_discount = 50
        /\ orders[id].amount_total = 1200
        /\ calculate_totals(orders[id]).amount_total = 1150
        /\ calculate_totals(orders[id]).amount_untaxed = 1000

\* ================================================ validation of quantities
\* The three creating routers side by side, on payloads whose quantity is
\* positive, zero or negative and whose unit price is negative.
ValidationInvoiceLines ==
    {<<[quantity |-> 3, unit_price |-> -100, vat_rate |-> 20, withholding_rate |-> 50]>>,
     <<[quantity |-> 10, unit_price |-> 100, vat_rate |-> 20, withholding_rate |-> 0],
       [quantity |-> 0, unit_price |-> 100, vat_rate |-> 20, withholding_rate |-> 0]>>,
     <<[quantity |-> -2, unit_price |-> 100, vat_rate |-> 20, withholding_rate |-> 0]>>}

ValidationInvoicePayloads ==
    {[invoice_number |-> "F1", company_id |-> 1, partner_id |-> 1,
      subtotal |-> 0, vat_amount |-> 0, total_amount |-> 0, lines |-> ls] :
        ls \in ValidationInvoiceLines}

SalesLineNegative ==
    [quantity |-> -2, unit_price |-> 100, discount |-> 0, tax_rate |-> 20]

ValidationOrderLines ==
    {<<SalesLineN>>, <<SalesLineA, SalesLineZ>>, <<SalesLineNegative>>}

ValidationOrderPayloads ==
    {[customer_id |-> 1, amount_discount |-> 0, lines |-> ls] :
        ls \in ValidationOrderLines \cup {<<SalesLineA>>}}

ValidationOrderUpdates ==
    {OrderUpdate({"lines"}, DRAFT, 0, ls, {}) : ls \in ValidationOrderLines}

ValidationMovePayloads ==
    {<<1, TYPE_IN, 3, -7>>, <<1, TYPE_IN, 0, 7>>, <<1, TYPE_OUT, -2, 7>>}

ValidationInit == InvQuiet /\ TxnIdle /\ AccIdle /\ SalesIdle /\ LedgerQuiet /\ AuxQuiet

ValidationNext ==
    \/ \E payload \in ValidationInvoicePayloads : create_invoice(payload)
    \/ \E order \in ValidationOrderPayloads : create_sales_order(order)
    \/ \E id \in OrderIds, order_update \in ValidationOrderUpdates :
           update_sales_order(id, order_update)
    \/ \E m \in ValidationMovePayloads : create_stock_move(m[1], m[2], m[3], m[4])

SpecValidation == ValidationInit /\ [][ValidationNext]_vars

\* Every table of the three modules.
tables == <<products, moves, companies, partners, invoices, customers, orders>>

\* C16: a create_invoice, create_sales_order, update_sales_order or
\* create_stock_move whose payload has a quantity <= 0 answers 422 (the
\* validation error) and changes no table; one whose quantities are all
\* positive passes the validation whatever the sign of its unit prices.
C16_QuantityValidated ==
    [][/\ \A payload \in ValidationInvoicePayloads :
            create_invoice(payload)
            => IF \E k \in DOMAIN payload.lines : payload.lines[k].quantity <= 0
               THEN acc_resp'.status = 422 /\ UNCHANGED tables
               ELSE acc_resp'.status # 422
       /\ \A order \in ValidationOrderPayloads :
            create_sales_order(order)
            => IF \E k \in DOMAIN order.lines : order.lines[k].quantity <= 0
               THEN sales_resp'.status = 422 /\ UNCHANGED tables
               ELSE sales_resp'.status # 422
       /\ \A id \in OrderIds, order_update \in ValidationOrderUpdates :
            update_sales_order(id, order_update)
            => IF \E k \in DOMAIN order_update.lines :
                      order_update.lines[k].quantity <= 0
               THEN sales_resp'.status = 422 /\ UNCHANGED tables
               ELSE sales_resp'.status # 422
       /\ \A m \in ValidationMovePayloads :
            create_stock_move(m[1], m[2], m[3], m[4])
            => IF m[3] <= 0
               THEN resp'.status = 422 /\ UNCHANGED tables
               ELSE resp'.status # 422]_vars

\* C16 witness: the last request of each router was rejected with 422, and
\* the tables hold what earlier requests with a negative unit price stored:
\* an invoice line, a sales-order line (3 x -100 at 20%: -360) beside an
\* order with a positive price, and a stock move (3 x -7 = -21).
C16_Witness ==
    /\ acc_resp = Response("create_invoice", 422)
    /\ sales_resp.status = 422
    /\ resp = Response("create_stock_move", 422)
    /\ \E i \in DOMAIN invoices :
           invoices[i].lines[1].unit_price < 0 /\ invoices[i].lines[1].quantity > 0
    /\ \E id \in DOMAIN orders :
           /\ orders[id].lines[1].unit_price < 0
           /\ orders[id].lines[1].price_total = -360
    /\ \E id \in DOMAIN orders : orders[id].lines[1].unit_price > 0
    /\ \E id \in DOMAIN moves :
           moves[id].unit_price < 0 /\ moves[id].total_value = -21

\* ================================================================= ledger
\* AccountType
ASSET == "VARLIK"
LIABILITY == "BORC"
EQUITY == "OZKAYNAKLAR"
REVENUE == "GELIR"
EXPENSE == "GIDER"
AccountType == {ASSET, LIABILITY, EQUITY, REVENUE, EXPENSE}

\* The accounts table: one account of every type and a second ASSET account
\* (codes of DEFAULT_ACCOUNTS); id = index.
ChartOfAccounts ==
    <<[code |-> 100, account_type |-> ASSET],
      [code |-> 320, account_type |-> LIABILITY],
      [code |-> 500, account_type |-> EQUITY],
      [code |-> 600, account_type |-> REVENUE],
      [code |-> 770, account_type |-> EXPENSE],
      [code |-> 102, account_type |-> ASSET]>>

\* A row of transactions; unset holds the columns among debit and credit
\* that are NULL.
Transaction(account_id, transaction_date, debit, credit, nulls) ==
    [account_id |-> account_id, transaction_date |-> transaction_date,
     debit |-> debit, credit |-> credit, unset |-> nulls]

\* The transactions tables the ledger starts from.  The first holds the
\* spec's examples: debit 5000 and credit 2000 on an ASSET account, a
\* difference of 2,000,000 and one of 6,000,000.  The second holds the limits
\* 1,000,000 and 5,000,000, an amount beyond the cap of the score, a NULL
\* debit, and accounts whose only entries are dated 2 or 3.
LedgerTables ==
    {<<Transaction(1, 1, 5000, 0, {}),
       Transaction(1, 2, 0, 2000, {}),
       Transaction(2, 1, 0, 2000000, {}),
       Transaction(6, 3, 6000000, 0, {})>>,
     <<Transaction(3, 2, 5000000, 0, {}),
       Transaction(6, 1, 12000000, 0, {}),
       Transaction(4, 1, 0, 1000001, {"debit"}),
       Transaction(5, 1, 1000000, 0, {}),
       Transaction(1, 3, 3000000, 2500000, {})>>,
     <<>>}

ReportDates == {1, 2, 3}

\* The thresholds and the scale of detect_transaction_anomalies.
SuspiciousAmount == 1000000
HighAmount == 5000000
ScoreDivisor == 1000000
ScoreCap == 10

\* abs((tx.debit or 0.0) - (tx.credit or 0.0))
tx_amount(tx) ==
    LET debit == IF IsNone(tx, "debit") THEN 0 ELSE tx.debit
        credit == IF IsNone(tx, "credit") THEN 0 ELSE tx.credit
    IN  IF debit - credit >= 0 THEN debit - credit ELSE credit - debit

\* Mutant: an amount equal to the threshold is suspicious too.
is_suspicious_inclusive(amount) == amount >= SuspiciousAmount \/ amount < 0

is_suspicious(amount) == amount > SuspiciousAmount \/ amount < 0

severity(amount) == IF amount > HighAmount THEN "HIGH" ELSE "MEDIUM"

\* Mutant: the score is capped where the severity turns HIGH.
anomaly_score_capped_at_high(amount) ==
    IF amount <= HighAmount THEN amount ELSE HighAmount

\* min(amount / 1_000_000, 10.0).  The model holds the score in millionths
\* (score * ScoreDivisor), which is exact for whole amounts.
anomaly_score(amount) ==
    IF amount <= ScoreCap * ScoreDivisor THEN amount ELSE ScoreCap * ScoreDivisor

\* The AnomalyDetection row INSERTed for transaction tx_id: is_resolved takes
\* its default False, resolution_notes and resolved_at stay NULL.
NewAnomaly(tx_id, amount) ==
    [entity_id |-> tx_id, severity |-> severity(amount),
     anomaly_score |-> anomaly_score(amount),
     is_resolved |-> FALSE, resolution_notes |-> None, resolved_at |-> NullDate]

RECURSIVE DetectLoop(_, _, _)
\* The loop of detect_transaction_anomalies from transaction i on: acc holds
\* the rows added to the session and the counter created.
DetectLoop(txs, i, acc) ==
    IF i > Len(txs) THEN acc
    ELSE LET amount == tx_amount(txs[i])
         IN  IF ~is_suspicious(amount)
             THEN DetectLoop(txs, i + 1, acc)
             ELSE DetectLoop(txs, i + 1,
                      [added |-> Append(acc.added, NewAnomaly(i, amount)),
                       created |-> acc.created + 1])

LedgerResponse(op, status, created) ==
    [op |-> op, status |-> status, created |-> created]

\* POST /api/v1/accounting/anomalies/detect
detect_anomalies ==
    /\ Len(anomalies) < MaxAnomalies
    /\ LET pass == DetectLoop(transactions, 1, [added |-> <<>>, created |-> 0])
       IN  /\ anomalies' = anomalies \o pass.added
           /\ ledger_resp' = LedgerResponse("detect_anomalies", 200, pass.created)
    /\ UNCHANGED <<accounts, transactions, balance_sheet, not_ledger_vars>>

\* Mutant: resolving a resolved finding reopens it.
resolve_toggles(a, notes, t) ==
    [a EXCEPT !.is_resolved = ~a.is_resolved, !.resolution_notes = notes,
              !.resolved_at = t]

\* The assignments of service_layer.resolve_anomaly.
resolve(a, notes, t) ==
    [a EXCEPT !.is_resolved = TRUE, !.resolution_notes = notes, !.resolved_at = t]

\* PATCH /api/v1/accounting/anomalies/{anomaly_id}/resolve
resolve_anomaly(anomaly_id, notes) ==
    /\ IF anomaly_id \notin DOMAIN anomalies
       THEN /\ ledger_resp' = LedgerResponse("resolve_anomaly", 404, 0)
            /\ UNCHANGED anomalies
       ELSE /\ anomalies' = [anomalies EXCEPT ![anomaly_id] = resolve(@, notes, now)]
            /\ ledger_resp' = LedgerResponse("resolve_anomaly", 200, 0)
    /\ UNCHANGED <<accounts, transactions, balance_sheet, not_ledger_vars>>

\* --------------------------------------------------------- balance sheet
\* The rows of accounts LEFT OUTER JOIN transactions for one account that
\* pass the WHERE clause: its transactions dated on or before report_date.
Surviving(account_id, report_date) ==
    {i \in DOMAIN transactions :
        /\ transactions[i].account_id = account_id
        /\ transactions[i].transaction_date <= report_date}

\* The account has a group in the result: it has no transaction at all (its
\* one joined row has Transaction.id NULL), or a transaction passes the date.
HasRow(account_id, report_date) ==
    \/ \A i \in DOMAIN transactions : transactions[i].account_id # account_id
    \/ Surviving(account_id, report_date) # {}

RECURSIVE SqlSum(_, _)
\* func.sum(Transaction.debit - Transaction.credit) over the rows rows of
\* transactions, the first n ids considered: a row whose debit or credit is
\* NULL has a NULL difference, which SUM skips.  float(row.balance or 0.0)
\* turns the NULL of a sum over no value into 0.
SqlSum(rows, n) ==
    IF n = 0 THEN 0
    ELSE SqlSum(rows, n - 1)
             + IF n \in rows /\ ~IsNone(transactions[n], "debit")
                            /\ ~IsNone(transactions[n], "credit")
               THEN transactions[n].debit - transactions[n].credit
               ELSE 0

RECURSIVE BalanceRows(_, _, _)
\* The account_info of the result rows whose account has the type
\* account_type, for the first n accounts.  (The query has no ORDER BY; the
\* rows are taken in the order of the account ids.)
BalanceRows(account_type, report_date, n) ==
    IF n = 0 THEN <<>>
    ELSE LET before == BalanceRows(account_type, report_date, n - 1)
         IN  IF accounts[n].account_type = account_type /\ HasRow(n, report_date)
             THEN Append(before,
                      [code |-> accounts[n].code,
                       balance |-> SqlSum(Surviving(n, report_date),
                                          Len(transactions))])
             ELSE before

RECURSIVE SumBalances(_, _)
\* sum(a["balance"] for a in listed), over the first n entries.
SumBalances(listed, n) ==
    IF n = 0 THEN 0 ELSE SumBalances(listed, n - 1) + listed[n].balance

\* service_layer.get_balance_sheet_data
get_balance_sheet_data(report_date) ==
    LET listed(account_type) ==
            BalanceRows(account_type, report_date, Len(accounts))
        bucket(account_type) ==
            Bucket(SumBalances(listed(account_type), Len(listed(account_type))),
                   listed(account_type))
    IN  [report_date |-> report_date, assets |-> bucket(ASSET),
         liabilities |-> bucket(LIABILITY), equity |-> bucket(EQUITY)]

\* GET /api/v1/accounting/reports/balance-sheet?report_date=...
get_balance_sheet(report_date) ==
    /\ balance_sheet' = get_balance_sheet_data(report_date)
    /\ ledger_resp' = LedgerResponse("get_balance_sheet", 200, 0)
    /\ UNCHANGED <<accounts, transactions, anomalies, not_ledger_vars>>

ResolutionNotes == {"checked"}

LedgerInit ==
    /\ InvQuiet /\ TxnIdle /\ AccQuiet /\ SalesIdle /\ AuxQuiet
    /\ accounts = ChartOfAccounts
    /\ transactions \in LedgerTables
    /\ anomalies = <<>>
    /\ balance_sheet = NoBalanceSheet
    /\ ledger_resp = LedgerResponse("none", 0, 0)

LedgerNext ==
    \/ detect_anomalies
    \/ \E id \in 1..(MaxAnomalies + 1), notes \in ResolutionNotes :
           resolve_anomaly(id, notes)
    \/ \E report_date \in ReportDates : get_balance_sheet(report_date)

SpecLedger == LedgerInit /\ [][LedgerNext]_vars

\* ========================================================== ledger claims
\* |debit - credit| of a stored transaction, a NULL column counting as 0.
AbsDifference(tx) ==
    LET d == (IF "debit" \in tx.unset THEN 0 ELSE tx.debit)
                 - (IF "credit" \in tx.unset THEN 0 ELSE tx.credit)
    IN  IF d < 0 THEN 0 - d ELSE d

\* The findings a step has appended to anomaly_detections.
Appended == SubSeq(anomalies', Len(anomalies) + 1, Len(anomalies'))

\* C17: a detection pass appends exactly one finding for every transaction
\* whose amount |debit - credit| is strictly greater than 1,000,000 and none
\* for any other; a finding's severity is HIGH when the amount is above
\* 5,000,000 and MEDIUM otherwise, its anomaly_score is min(amount /
\* 1,000,000, 10.0) (held in millionths), and the count returned is the
\* number of findings appended.
C17_RuleBasedDetection ==
    [][detect_anomalies =>
       /\ SubSeq(anomalies', 1, Len(anomalies)) = anomalies
       /\ \A t \in DOMAIN transactions :
              Cardinality({k \in DOMAIN Appended : Appended[k].entity_id = t})
                  = IF AbsDifference(transactions[t]) > 1000000 THEN 1 ELSE 0
       /\ \A k \in DOMAIN Appended :
              LET amount == AbsDifference(transactions[Appended[k].entity_id])
              IN  /\ Appended[k].entity_id \in DOMAIN transactions
                  /\ Appended[k].severity
                         = IF amount > 5000000 THEN "HIGH" ELSE "MEDIUM"
                  /\ Appended[k].anomaly_score
                         = IF amount < 10 * 1000000 THEN amount ELSE 10 * 1000000
       /\ ledger_resp'.created = Len(Appended)]_vars

\* C17 witness: a pass over the second table returned 3 and left a MEDIUM
\* finding for the amount 5,000,000 (score 5.0), a HIGH one for 12,000,000
\* (score 10.0) and a MEDIUM one for 1,000,001 (NULL debit), and none for the
\* amounts 1,000,000 and 500,000.
C17_Witness ==
    /\ ledger_resp = LedgerResponse("detect_anomalies", 200, 3)
    /\ Len(transactions) = 5 /\ Len(anomalies) = 3
    /\ anomalies[1].entity_id = 1 /\ anomalies[1].severity = "MEDIUM"
    /\ anomalies[1].anomaly_score = 5000000
    /\ anomalies[2].entity_id = 2 /\ anomalies[2].severity = "HIGH"
    /\ anomalies[2].anomaly_score = 10000000
    /\ anomalies[3].entity_id = 3 /\ anomalies[3].severity = "MEDIUM"
    /\ anomalies[3].anomaly_score = 1000001
    /\ AbsDifference(transactions[4]) = 1000000
    /\ AbsDifference(transactions[5]) = 500000

\* C18 (as claimed): a finding for a transaction with |debit - credit| =
\* 6,000,000 has severity HIGH and anomaly_score 10.0, one for 2,000,000 has
\* severity MEDIUM and anomaly_score 2.0 (scores in millionths).
C18_ExampleScores ==
    \A k \in DOMAIN anomalies :
        LET amount == AbsDifference(transactions[anomalies[k].entity_id])
        IN  /\ amount = 6000000
                => /\ anomalies[k].severity = "HIGH"
                   /\ anomalies[k].anomaly_score = 10 * 1000000
            /\ amount = 2000000
                => /\ anomalies[k].severity = "MEDIUM"
                   /\ anomalies[k].anomaly_score = 2 * 1000000

\* C18 (amended): a finding for a transaction with |debit - credit| =
\* 6,000,000 has severity HIGH and anomaly_score 6.0 (the cap of 10.0 is
\* reached from 10,000,000 on), one for 2,000,000 has severity MEDIUM and
\* anomaly_score 2.0.
C18_ExampleScoresUncapped ==
    \A k \in DOMAIN anomalies :
        LET amount == AbsDifference(transactions[anomalies[k].entity_id])
        IN  /\ amount = 6000000
                => /\ anomalies[k].severity = "HIGH"
                   /\ anomalies[k].anomaly_score = 6 * 1000000
            /\ amount = 2000000
                => /\ anomalies[k].severity = "MEDIUM"
                   /\ anomalies[k].anomaly_score = 2 * 1000000
            /\ amount >= 10 * 1000000
                => anomalies[k].anomaly_score = 10 * 1000000

\* C18 witness: a pass over the first table stored a finding for the
\* transaction with credit 2,000,000 and one for that with debit 6,000,000.
C18_Witness ==
    /\ ledger_resp.op = "detect_anomalies"
    /\ \E j, k \in DOMAIN anomalies :
           /\ AbsDifference(transactions[anomalies[j].entity_id]) = 2000000
           /\ transactions[anomalies[j].entity_id].credit = 2000000
           /\ anomalies[j].anomaly_score = 2000000
           /\ AbsDifference(transactions[anomalies[k].entity_id]) = 6000000
           /\ anomalies[k].severity = "HIGH"
           /\ anomalies[k].anomaly_score = 6000000

\* C19: anomaly resolution is one-way.  No finding is removed; a finding is
\* appended unresolved; a stored finding changes only in a successful
\* resolve_anomaly, which leaves it resolved; a resolved finding is resolved
\* after every step; and resolve_anomaly of an id that does not exist
\* answers 404 and changes no finding.
C19_ResolutionOneWay ==
    [][/\ Len(anomalies') >= Len(anomalies)
       /\ \A id \in DOMAIN anomalies' \ DOMAIN anomalies :
              ~anomalies'[id].is_resolved
       /\ \A id \in DOMAIN anomalies :
              /\ anomalies[id].is_resolved => anomalies'[id].is_resolved
              /\ anomalies'[id] # anomalies[id]
                     => /\ ledger_resp' = LedgerResponse("resolve_anomaly", 200, 0)
                        /\ anomalies'[id].is_resolved
       /\ \A id \in 1..(MaxAnomalies + 1), notes \in ResolutionNotes :
              (resolve_anomaly(id, notes) /\ id \notin DOMAIN anomalies)
              => /\ ledger_resp'.status = 404
                 /\ UNCHANGED anomalies]_vars

\* C19 witness: of three findings the first was resolved and the second was
\* not, and the last request, resolving an id that does not exist, got 404.
C19_Witness ==
    /\ ledger_resp = LedgerResponse("resolve_anomaly", 404, 0)
    /\ Len(anomalies) = 3
    /\ anomalies[1].is_resolved /\ anomalies[1].resolved_at # NullDate
    /\ ~anomalies[2].is_resolved /\ anomalies[2].resolved_at = NullDate

RECURSIVE LedgerBalance(_, _, _)
\* sum(debit) - sum(credit) over the first n transactions that belong to
\* account a and are dated on or before the cutoff d (a NULL counts as 0).
LedgerBalance(a, d, n) ==
    IF n = 0 THEN 0
    ELSE LedgerBalance(a, d, n - 1)
             + IF transactions[n].account_id = a
                  /\ transactions[n].transaction_date <= d
               THEN (IF "debit" \in transactions[n].unset
                     THEN 0 ELSE transactions[n].debit)
                    - (IF "credit" \in transactions[n].unset
                       THEN 0 ELSE transactions[n].credit)
               ELSE 0

\* The positions of the entries of a bucket that carry the code of account a.
Listed(bucket, a) ==
    {k \in DOMAIN bucket.accounts : bucket.accounts[k].code = accounts[a].code}

RECURSIVE SumListed(_, _)
SumListed(bucket, n) ==
    IF n = 0 THEN 0 ELSE SumListed(bucket, n - 1) + bucket.accounts[n].balance

\* C20: a balance sheet returned for the cutoff report_date lists every
\* ASSET, LIABILITY or EQUITY account exactly once, in the bucket of its
\* type and in no other, with balance = sum(debit) - sum(credit) over the
\* account's entries dated on or before the cutoff (0 when there is none);
\* REVENUE and EXPENSE accounts are in no bucket; every bucket's total is the
\* sum of the balances it lists.
C20_BalanceSheet ==
    balance_sheet.report_date \in ReportDates =>
        LET d == balance_sheet.report_date
            bucket_of(t) == IF t = ASSET THEN balance_sheet.assets
                            ELSE IF t = LIABILITY THEN balance_sheet.liabilities
                            ELSE balance_sheet.equity
        IN  /\ \A a \in DOMAIN accounts, t \in {ASSET, LIABILITY, EQUITY} :
                   IF accounts[a].account_type = t
                   THEN /\ Cardinality(Listed(bucket_of(t), a)) = 1
                        /\ \A k \in Listed(bucket_of(t), a) :
                               bucket_of(t).accounts[k].balance
                                   = LedgerBalance(a, d, Len(transactions))
                   ELSE Listed(bucket_of(t), a) = {}
            /\ \A t \in {ASSET, LIABILITY, EQUITY} :
                   bucket_of(t).total
                       = SumListed(bucket_of(t), Len(bucket_of(t).accounts))

\* ---------------------------------------------------------- C30
\* C30: starting from products with qty_available >= 0, no sequence of
\* create_stock_move, confirm and execute calls drives a product's
\* qty_available below 0: an OUT move for more than the product's current
\* qty_available is not executed.
C30_StockNeverNegative ==
    \A p \in DOMAIN products :
        ~IsNone(products[p], "qty_available") => products[p].qty_available >= 0

\* ---------------------------------------------------------- C24
\* The request body of an update passes the validators of SalesOrderUpdate.
UpdateParsed(order_update) ==
    "lines" \in order_update.fields_set => lines_valid(order_update.lines)

\* C24: update_sales_order and confirm_sales_order succeed only for an order
\* in DRAFT or QUOTATION, delete_sales_order only for one in DRAFT, and
\* cancel_sales_order for one in any state but DELIVERED; a call rejected by
\* these guards answers 400 and leaves every order, with its lines and its
\* totals, unchanged; and an order that is CANCELLED stays CANCELLED.
C24_LifecycleGuards ==
    [][/\ sales_resp'.op = "update_sales_order" =>
              \A id \in DOMAIN orders, u \in OrderUpdatePayloads :
                  (UpdateParsed(u) /\ update_sales_order(id, u)) =>
                      IF orders[id].state \in {DRAFT, QUOTATION}
                      THEN sales_resp'.status = 200
                      ELSE sales_resp'.status = 400 /\ orders' = orders
       /\ sales_resp'.op = "confirm_sales_order" =>
              \A id \in DOMAIN orders :
                  confirm_sales_order(id) =>
                      IF orders[id].state \in {DRAFT, QUOTATION}
                      THEN sales_resp'.status = 200
                      ELSE sales_resp'.status = 400 /\ orders' = orders
       /\ sales_resp'.op = "delete_sales_order" =>
              \A id \in DOMAIN orders :
                  delete_sales_order(id) =>
                      IF orders[id].state = DRAFT
                      THEN sales_resp'.status = 204
                      ELSE sales_resp'.status = 400 /\ orders' = orders
       /\ sales_resp'.op = "cancel_sales_order" =>
              \A id \in DOMAIN orders :
                  cancel_sales_order(id) =>
                      IF orders[id].state # DELIVERED
                      THEN sales_resp'.status = 200
                      ELSE sales_resp'.status = 400 /\ orders' = orders
       /\ \A id \in DOMAIN orders :
              orders[id].state = CANCELLED =>
                  id \in DOMAIN orders' /\ orders'[id].state = CANCELLED]_vars

\* A cancelled order has just been refused a deletion while the other order
\* is delivered.
C24_Witness ==
    /\ sales_resp = Response("delete_sales_order", 400)
    /\ DOMAIN orders = {1, 2}
    /\ orders[1].state = CANCELLED
    /\ orders[2].state = DELIVERED

\* ---------------------------------------------------------- C28
\* C28: every create_sales_order for an existing customer succeeds and gives
\* the new order a name that no stored order has, also after a DRAFT order
\* has been deleted.
C28_OrderNamesUnique ==
    [][sales_resp'.op = "create_sales_order" =>
          \A order \in OrderPayloads :
              (/\ lines_valid(order.lines)
               /\ order.customer_id \in customers
               /\ create_sales_order(order)) =>
                  /\ sales_resp'.status = 201
                  /\ \A i \in DOMAIN orders :
                         orders[i].name # orders'[order_seq'].name]_vars

\* ---------------------------------------------------------- C29
\* C29: every sales order whose state is CONFIRMED has a confirmation_date:
\* an order becomes CONFIRMED through confirm_order only, and no other
\* operation moves an order to CONFIRMED or DELIVERED.
C29_ConfirmedHasDate ==
    \A id \in DOMAIN orders :
        /\ orders[id].state = CONFIRMED =>
               orders[id].confirmation_date # NullDate
        /\ orders[id].state # DELIVERED

\* ---------------------------------------------------------- C23
\* Invoices with no line or one line, for stored and missing companies and
\* partners.
NotFoundPayloads ==
    {[invoice_number |-> n, company_id |-> c, partner_id |-> pa,
      subtotal |-> f[1], vat_amount |-> f[2], total_amount |-> f[3], lines |-> ls] :
        n \in InvoiceNumbers, c \in {1, 2, 3}, pa \in {1, 2}, f \in FlatAmounts,
        ls \in {<<>>,
                <<[quantity |-> 10, unit_price |-> 100, vat_rate |-> 20,
                   withholding_rate |-> 0]>>}}

NotFoundNext == \E payload \in NotFoundPayloads : create_invoice(payload)

SpecNotFound == AccInit /\ [][NotFoundNext]_vars

\* The request names a partner that is not stored, or a company other than
\* 1 that is not stored.
NotFoundCase(payload) ==
    \/ payload.partner_id \notin partners
    \/ payload.company_id # 1 /\ payload.company_id \notin companies

\* C23: create_invoice with a partner_id that does not exist, or with a
\* company_id other than 1 that does not exist, fails with NotFound (404) and
\* leaves the stored invoices, invoice lines and companies unchanged, also
\* when the request had first created the default company for company_id 1.
C23_NotFoundRollsBack ==
    [][\A payload \in NotFoundPayloads :
           (NotFoundCase(payload) /\ create_invoice(payload)) =>
               /\ acc_resp'.status = 404
               /\ UNCHANGED <<companies, partners, invoices>>]_vars

\* A request for company 1 and an unknown partner has failed where no company
\* was stored: the default company it had created is not stored.
C23_Witness ==
    /\ acc_resp = Response("create_invoice", 404)
    /\ companies = {}
    /\ invoices = <<>>

\* ===================================================== cash-flow forecast
\* GET /api/v1/accounting/forecasts/cashflow.  Dates are day numbers;
\* date.today() is an input of each request.
Todays == {100, 101}

DaysAhead == {0, 1, 7, 30}

\* timedelta(days=90)
TrailingDays == 90

\* The transactions tables the forecast starts from; every amount is a
\* multiple of 90, so that the daily averages are exact.  The first holds the
\* spec's example (debit 9000, credit 4500), the second entries on the first
\* and the last day of the window and outside of it, the third NULL columns.
CashflowTables ==
    {<<Transaction(1, 50, 9000, 0, {}),
       Transaction(1, 60, 0, 4500, {})>>,
     <<Transaction(1, 10, 9000, 0, {}),
       Transaction(1, 9, 1800, 0, {}),
       Transaction(1, 101, 0, 900, {}),
       Transaction(1, 100, 0, 3600, {})>>,
     <<Transaction(1, 40, 0, 1800, {"debit"}),
       Transaction(1, 41, 900, 0, {"credit"})>>,
     <<>>}

max(a, b) == IF a >= b THEN a ELSE b

\* The WHERE clause of the forecast's query.
in_window(transaction_date, start_date, end_date) ==
    transaction_date >= start_date /\ transaction_date <= end_date

RECURSIVE sum_debit(_, _, _)
\* func.sum(Transaction.debit) over the rows of the window among the first n
\* transactions; SUM skips NULL, and float(row.total_debit or 0.0) turns the
\* NULL of a sum over no value into 0.
sum_debit(start_date, end_date, n) ==
    IF n = 0 THEN 0
    ELSE sum_debit(start_date, end_date, n - 1)
             + IF /\ in_window(transactions[n].transaction_date,
                               start_date, end_date)
                  /\ ~IsNone(transactions[n], "debit")
               THEN transactions[n].debit
               ELSE 0

RECURSIVE sum_credit(_, _, _)
\* func.sum(Transaction.credit), likewise.
sum_credit(start_date, end_date, n) ==
    IF n = 0 THEN 0
    ELSE sum_credit(start_date, end_date, n - 1)
             + IF /\ in_window(transactions[n].transaction_date,
                               start_date, end_date)
                  /\ ~IsNone(transactions[n], "credit")
               THEN transactions[n].credit
               ELSE 0

\* service_layer.calculate_cashflow_forecast: the row it adds.
calculate_cashflow_forecast(today, days_ahead) ==
    LET end_date == today
        start_date == end_date - TrailingDays
        total_debit == sum_debit(start_date, end_date, Len(transactions))
        total_credit == sum_credit(start_date, end_date, Len(transactions))
        days == max(end_date - start_date, 1)
        avg_inflow == total_debit \div days
        avg_outflow == total_credit \div days
        avg_balance_change == avg_inflow - avg_outflow
    IN  [forecast_date |-> end_date + days_ahead,
         predicted_inflow |-> avg_inflow * days_ahead,
         predicted_outflow |-> avg_outflow * days_ahead,
         predicted_balance |-> avg_balance_change * days_ahead,
         unset |-> {"confidence_score"}]

\* The router's handler.
get_cashflow_forecast(today, days_ahead) ==
    /\ Len(forecasts) < MaxForecasts
    /\ IF days_ahead <= 0
       THEN /\ forecast_resp' = Response("get_cashflow_forecast", 400)
            /\ UNCHANGED forecasts
       ELSE /\ forecasts' = Append(forecasts,
                                calculate_cashflow_forecast(today, days_ahead))
            /\ forecast_resp' = Response("get_cashflow_forecast", 200)
    /\ UNCHANGED not_forecast_vars

CashflowInit ==
    /\ InvQuiet /\ TxnIdle /\ AccQuiet /\ SalesIdle /\ AuxQuiet
    /\ accounts = ChartOfAccounts
    /\ transactions \in CashflowTables
    /\ anomalies = <<>>
    /\ balance_sheet = NoBalanceSheet
    /\ ledger_resp = LedgerResponse("none", 0, 0)

CashflowNext ==
    \E today \in Todays, days_ahead \in DaysAhead :
        get_cashflow_forecast(today, days_ahead)

SpecCashflow == CashflowInit /\ [][CashflowNext]_vars

\* ---------------------------------------------------------- C21
\* The calendar days whose transactions a forecast made on the day today
\* sums.
CoveredDays(today) ==
    {t \in 0..(today + 1) : in_window(t, today - TrailingDays, today)}

RECURSIVE WindowTotal(_, _, _)
\* The sum of the column col over the transactions of the covered days, NULL
\* counting as nothing.
WindowTotal(col, today, n) ==
    IF n = 0 THEN 0
    ELSE WindowTotal(col, today, n - 1)
             + IF /\ transactions[n].transaction_date \in CoveredDays(today)
                  /\ ~IsNone(transactions[n], col)
               THEN transactions[n][col]
               ELSE 0

\* C21: a forecast for days_ahead = d > 0 takes the sums of debit and credit
\* over the trailing window, divides them by the number of calendar days the
\* summed window covers to get the daily averages, and stores
\* predicted_inflow = avg_inflow * d, predicted_outflow = avg_outflow * d and
\* predicted_balance = predicted_inflow - predicted_outflow; totals of 9000
\* and 4500 with d = 30 give 3000, 1500 and 1500.
C21_CashflowForecast ==
    [][forecasts' # forecasts =>
        \A today \in Todays, d \in DaysAhead :
            get_cashflow_forecast(today, d) =>
                LET f == forecasts'[Len(forecasts')]
                    n == Cardinality(CoveredDays(today))
                    total_debit == WindowTotal("debit", today, Len(transactions))
                    total_credit == WindowTotal("credit", today, Len(transactions))
                IN  /\ d > 0
                    /\ f.predicted_inflow * n = total_debit * d
                    /\ f.predicted_outflow * n = total_credit * d
                    /\ f.predicted_balance
                         = f.predicted_inflow - f.predicted_outflow
                    /\ (total_debit = 9000 /\ total_credit = 4500 /\ d = 30)
                         => /\ f.predicted_inflow = 3000
                            /\ f.predicted_outflow = 1500
                            /\ f.predicted_balance = 1500]_vars
\* ======================================================== partner balance
\* GET /api/v1/accounting/partners/{partner_id}/balance.  Scores are held in
\* hundredths.
PartnerIds == {1, 2}

\* The rows a partner can be stored with: credit_score is nullable.
PartnerRowValues ==
    {[current_balance |-> b, credit_score |-> c, unset |-> {}] :
         b \in {-100, 0, 250}, c \in {0, 30, 40, 100}}
    \cup {[current_balance |-> b, credit_score |-> 0,
           unset |-> {"credit_score"}] : b \in {-100, 0, 250}}

\* The names that "from modules.accounting.models import ..." binds in the
\* router's module.
ApiModelImports ==
    {"DocumentStatus", "AnomalyDetection", "Transaction", "Account",
     "InvoiceLine", "Invoice"}

\* The two suggestions, in ASCII.
COLLECTION == "Tahsilat plani olusturun"
LIMIT_REVIEW == "Kredi limitini gozden gecirin"

\* partner.credit_score or 0.5
credit_score_or_default(partner) ==
    IF IsNone(partner, "credit_score") \/ partner.credit_score = 0
    THEN 50
    ELSE partner.credit_score

\* The list the handler builds.
recommendations(balance, credit_score) ==
    (IF balance > 0 THEN <<COLLECTION>> ELSE <<>>)
    \o (IF credit_score < 40 THEN <<LIMIT_REVIEW>> ELSE <<>>)

\* The handler: select(Partner) is evaluated first, and raises NameError
\* when the module does not bind the name Partner.
get_partner_balance(partner_id) ==
    /\ IF "Partner" \notin ApiModelImports
       THEN partner_resp' = BalanceResponse(500, partner_id, NoBody)
       ELSE IF partner_id \notin DOMAIN partner_rows
       THEN partner_resp' = BalanceResponse(404, partner_id, NoBody)
       ELSE LET partner == partner_rows[partner_id]
                balance == partner.current_balance
                credit_score == credit_score_or_default(partner)
            IN  partner_resp' =
                    BalanceResponse(200, partner_id,
                        [current_balance |-> balance,
                         credit_score |-> credit_score,
                         recommendations |->
                             recommendations(balance, credit_score)])
    /\ UNCHANGED <<partner_rows, not_partner_vars>>

PartnerInit ==
    /\ InvQuiet /\ TxnIdle /\ SalesIdle /\ LedgerQuiet /\ ForecastQuiet /\ PosQuiet
    /\ LimiterQuiet
    /\ companies = {}
    /\ partners = PartnerIds
    /\ invoices = <<>>
    /\ acc_resp = Response("none", 0)
    /\ partner_rows \in [PartnerIds -> PartnerRowValues]
    /\ partner_resp = [op |-> "none", status |-> 0, partner_id |-> 0,
                       body |-> NoBody]

PartnerNext == \E partner_id \in PartnerIds \cup {3} : get_partner_balance(partner_id)

SpecPartner == PartnerInit /\ [][PartnerNext]_vars

\* ---------------------------------------------------------- C22
InList(x, list) == \E i \in DOMAIN list : list[i] = x

\* C22: for every existing partner, get_partner_balance returns a list of
\* recommendations that holds the collection suggestion exactly when
\* current_balance > 0 and the credit-limit-review suggestion exactly when
\* the partner's credit_score is below 0.4, a credit_score of 0 included.
C22_PartnerRecommendations ==
    (partner_resp.op = "get_partner_balance"
        /\ partner_resp.partner_id \in partners) =>
        LET partner == partner_rows[partner_resp.partner_id]
            recs == partner_resp.body.recommendations
        IN  /\ partner_resp.status = 200
            /\ InList(COLLECTION, recs)
                   <=> partner.current_balance > 0
            /\ InList(LIMIT_REVIEW, recs)
                   <=> (~IsNone(partner, "credit_score")
                           /\ partner.credit_score < 40)
\* ============================================================ point of sale
\* The POS router, each handler statement by statement: every request runs
\* in a session of its own (get_db) and sees what the others have committed.
\* Amounts are in minor units.
PosUsers == {1, 2}

PosSessionIds == {1, 2}

PosOrderIds == {1, 2}

\* POSOrderCreate bodies: one paid in full, one with a discount and unpaid.
PosOrderPayloads ==
    {[lines |-> <<[qty |-> 2, price_unit |-> 1000, discount |-> 0, tax_rate |-> 20]>>,
      payments |-> <<2400>>],
     [lines |-> <<[qty |-> 1, price_unit |-> 500, discount |-> 10, tax_rate |-> 20]>>,
      payments |-> <<>>]}

\* calculate_line_totals
calculate_line_totals(line) ==
    LET gross == line.qty * line.price_unit
        subtotal == IF line.discount > 0
                    THEN gross - Percent(gross, line.discount)
                    ELSE gross
        tax_amount == Percent(subtotal, line.tax_rate)
    IN  [price_subtotal |-> subtotal, price_subtotal_incl |-> subtotal + tax_amount]

RECURSIVE total_amount(_, _)
\* total_amount after the first n lines of the loop of create_order.
total_amount(lines, n) ==
    IF n = 0 THEN 0
    ELSE total_amount(lines, n - 1)
             + calculate_line_totals(lines[n]).price_subtotal_incl

RECURSIVE total_tax(_, _)
\* total_tax after the first n lines.
total_tax(lines, n) ==
    IF n = 0 THEN 0
    ELSE total_tax(lines, n - 1)
             + (calculate_line_totals(lines[n]).price_subtotal_incl
                    - calculate_line_totals(lines[n]).price_subtotal)

RECURSIVE total_paid(_, _)
\* total_paid after the first n payments.
total_paid(payments, n) ==
    IF n = 0 THEN 0 ELSE total_paid(payments, n - 1) + payments[n]

\* The POSOrder row create_order stores.
NewPosOrder(order_name, session_id, payload) ==
    LET amount_total == total_amount(payload.lines, Len(payload.lines))
        amount_paid == total_paid(payload.payments, Len(payload.payments))
    IN  [name |-> order_name, session_id |-> session_id,
         amount_tax |-> total_tax(payload.lines, Len(payload.lines)),
         amount_total |-> amount_total,
         amount_paid |-> amount_paid,
         amount_return |-> max(0, amount_paid - amount_total),
         state |-> IF amount_paid >= amount_total THEN "paid" ELSE "draft"]

\* The POSSession row create_session stores.
NewPosSession(user_id) ==
    [user_id |-> user_id, state |-> "opened", order_count |-> 0,
     total_sales |-> 0, total_payments |-> 0]

\* The rows of the SELECT of create_session: the sessions of the user that
\* are in opening_control or opened.
existing_sessions(user_id) ==
    {i \in DOMAIN pos_sessions :
        /\ pos_sessions[i].user_id = user_id
        /\ pos_sessions[i].state \in {"opening_control", "opened"}}

\* The request r ends with the answer status.
PosFinish(r, status) == pos_req' = [pos_req EXCEPT ![r] = PosIdle(status)]

\* create_session up to the check of existing_session: scalar_one_or_none
\* raises MultipleResultsFound on two rows.
create_session_select(r, user_id) ==
    /\ pos_req[r].pc = "idle"
    /\ IF Cardinality(existing_sessions(user_id)) > 1
       THEN PosFinish(r, 500)
       ELSE IF existing_sessions(user_id) # {}
       THEN PosFinish(r, 400)
       ELSE pos_req' = [pos_req EXCEPT ![r] =
                [PosIdle(0) EXCEPT !.pc = "insert_session", !.user_id = user_id]]
    /\ UNCHANGED <<pos_sessions, pos_orders, not_pos_vars>>

\* create_session from generate_session_name to the commit: the name is not
\* unique in the schema and no constraint ties a user to one open session.
create_session_commit(r) ==
    /\ pos_req[r].pc = "insert_session"
    /\ Len(pos_sessions) + 1 \in PosSessionIds
    /\ pos_sessions' = Append(pos_sessions, NewPosSession(pos_req[r].user_id))
    /\ PosFinish(r, 201)
    /\ UNCHANGED <<pos_orders, not_pos_vars>>

\* close_session up to the check of session.state.
close_session_select(r, session_id) ==
    /\ pos_req[r].pc = "idle"
    /\ IF session_id \notin DOMAIN pos_sessions
       THEN PosFinish(r, 404)
       ELSE IF pos_sessions[session_id].state = "closed"
       THEN PosFinish(r, 400)
       ELSE pos_req' = [pos_req EXCEPT ![r] =
                [PosIdle(0) EXCEPT !.pc = "commit_close", !.session_id = session_id]]
    /\ UNCHANGED <<pos_sessions, pos_orders, not_pos_vars>>

\* close_session's commit: the UPDATE writes the columns the handler has
\* set (state, stop_at, closing_cash, ...).
close_session_commit(r) ==
    /\ pos_req[r].pc = "commit_close"
    /\ pos_sessions' = [pos_sessions EXCEPT ![pos_req[r].session_id].state = "closed"]
    /\ PosFinish(r, 200)
    /\ UNCHANGED <<pos_orders, not_pos_vars>>

\* create_order up to the check of session.state; the ORM object keeps the
\* counters as loaded.
create_order_select(r, session_id, payload) ==
    /\ pos_req[r].pc = "idle"
    /\ IF session_id \notin DOMAIN pos_sessions
       THEN PosFinish(r, 404)
       ELSE IF pos_sessions[session_id].state # "opened"
       THEN PosFinish(r, 400)
       ELSE pos_req' = [pos_req EXCEPT ![r] =
                [PosIdle(0) EXCEPT
                    !.pc = "name_order", !.session_id = session_id,
                    !.payload = payload,
                    !.snap = [order_count |-> pos_sessions[session_id].order_count,
                              total_sales |-> pos_sessions[session_id].total_sales,
                              total_payments |->
                                  pos_sessions[session_id].total_payments]]]
    /\ UNCHANGED <<pos_sessions, pos_orders, not_pos_vars>>

\* generate_order_name (POS): the number of stored orders of the month plus
\* one; every order of the model is of the same month.
pos_generate_order_name == Len(pos_orders) + 1

\* create_order: the SELECT count of generate_order_name.
create_order_name(r) ==
    /\ pos_req[r].pc = "name_order"
    /\ pos_req' = [pos_req EXCEPT ![r].pc = "commit_order",
                                  ![r].name = pos_generate_order_name]
    /\ UNCHANGED <<pos_sessions, pos_orders, not_pos_vars>>

\* create_order from the INSERT of the order to the commit.  The INSERT
\* fails on the unique index of pos_orders.name when the name is taken.  The
\* UPDATE of the session writes the three counters the handler has set,
\* computed from the values it loaded, and no other column.
create_order_commit(r) ==
    /\ pos_req[r].pc = "commit_order"
    /\ IF \E i \in DOMAIN pos_orders : pos_orders[i].name = pos_req[r].name
       THEN /\ PosFinish(r, 500)
            /\ UNCHANGED <<pos_sessions, pos_orders>>
       ELSE LET db_order == NewPosOrder(pos_req[r].name, pos_req[r].session_id,
                                        pos_req[r].payload)
                snap == pos_req[r].snap
            IN  /\ Len(pos_orders) + 1 \in PosOrderIds
                /\ pos_orders' = Append(pos_orders, db_order)
                /\ pos_sessions' = [pos_sessions EXCEPT ![pos_req[r].session_id] =
                       [@ EXCEPT
                           !.order_count = snap.order_count + 1,
                           !.total_sales = snap.total_sales + db_order.amount_total,
                           !.total_payments =
                               snap.total_payments + db_order.amount_paid]]
                /\ PosFinish(r, 201)
    /\ UNCHANGED not_pos_vars

PosInit ==
    /\ InvQuiet /\ TxnIdle /\ AccQuiet /\ SalesIdle /\ LedgerQuiet
    /\ ForecastQuiet /\ PartnerQuiet /\ PosQuiet /\ LimiterQuiet

PosNext ==
    \E r \in Requests :
        \/ \E user_id \in PosUsers : create_session_select(r, user_id)
        \/ create_session_commit(r)
        \/ \E session_id \in PosSessionIds : close_session_select(r, session_id)
        \/ close_session_commit(r)
        \/ \E session_id \in PosSessionIds, payload \in PosOrderPayloads :
               create_order_select(r, session_id, payload)
        \/ create_order_name(r)
        \/ create_order_commit(r)

SpecPos == PosInit /\ [][PosNext]_vars

\* ---------------------------------------------------------- C25
\* C25: at every reachable state each user_id has at most one POS session in
\* opening_control or opened, also when two create_session requests for the
\* same user run concurrently.
C25_OneOpenSessionPerUser ==
    \A user_id \in PosUsers : Cardinality(existing_sessions(user_id)) <= 1

\* ---------------------------------------------------------- C26
\* C26: POS orders are added only to sessions whose state is opened, and a
\* closed session is frozen: no order is added to it and its order_count,
\* total_sales and total_payments never change again, also when a
\* create_order request overlaps the close; closing a closed session fails
\* with 400 and changes nothing.
C26_ClosedSessionFrozen ==
    [][/\ \A k \in DOMAIN pos_orders' \ DOMAIN pos_orders :
              pos_sessions[pos_orders'[k].session_id].state = "opened"
       /\ \A i \in DOMAIN pos_sessions :
              pos_sessions[i].state = "closed" =>
                  /\ pos_sessions'[i] = pos_sessions[i]
                  /\ \A r \in Requests :
                         close_session_select(r, i) =>
                             pos_req'[r].status = 400]_vars
\* ============================================================ rate limiter
\* RateLimitMiddleware.dispatch, one Redis command at a time, for requests
\* whose path is not exempt.  Time is not counted: a key that carries an
\* expiry can expire at any moment.

\* settings.RATE_LIMIT_PER_MINUTE
RATE_LIMIT_PER_MINUTE == 60

\* redis.get(key): None for a missing key.
redis_get(client_ip) ==
    IF rate_limit[client_ip].exists
    THEN [LimitIdle(0) EXCEPT !.pc = "got", !.client_ip = client_ip,
                              !.current_count = rate_limit[client_ip].value]
    ELSE [LimitIdle(0) EXCEPT !.pc = "got", !.client_ip = client_ip,
                              !.unset = {"current_count"}]

\* redis.setex(key, 60, 1): the key holds 1 and expires.
redis_setex(key) == [exists |-> TRUE, value |-> 1, expires |-> TRUE]

\* redis.incr(key): a missing key is created as 0 without expiry and
\* incremented; an existing key keeps its expiry.
redis_incr(key) ==
    IF key.exists
    THEN [key EXCEPT !.value = @ + 1]
    ELSE [exists |-> TRUE, value |-> 1, expires |-> FALSE]

\* dispatch up to the comparison with the limit: the GET, and the
\* HTTPException(429) for a count at the limit.
dispatch_get(r, client_ip) ==
    /\ limit_req[r].pc = "idle"
    /\ LET got == redis_get(client_ip)
       IN  IF ~IsNone(got, "current_count")
                /\ got.current_count >= RATE_LIMIT_PER_MINUTE
           THEN limit_req' = [limit_req EXCEPT ![r] = LimitIdle(429)]
           ELSE limit_req' = [limit_req EXCEPT ![r] = got]
    /\ UNCHANGED <<rate_limit, not_limiter_vars>>

\* dispatch from the SETEX or the INCR to call_next.
dispatch_count(r) ==
    /\ limit_req[r].pc = "got"
    /\ LET key == rate_limit[limit_req[r].client_ip]
       IN  rate_limit' = [rate_limit EXCEPT ![limit_req[r].client_ip] =
               IF IsNone(limit_req[r], "current_count")
               THEN redis_setex(key)
               ELSE redis_incr(key)]
    /\ limit_req' = [limit_req EXCEPT ![r] = LimitIdle(200)]
    /\ UNCHANGED not_limiter_vars

\* Redis removes a key whose time to live has run out.
expire(client_ip) ==
    /\ rate_limit[client_ip].exists
    /\ rate_limit[client_ip].expires
    /\ rate_limit' = [rate_limit EXCEPT ![client_ip] = NoKey]
    /\ UNCHANGED <<limit_req, not_limiter_vars>>

LimiterInit ==
    /\ InvQuiet /\ TxnIdle /\ AccQuiet /\ SalesIdle /\ LedgerQuiet
    /\ ForecastQuiet /\ PartnerQuiet /\ PosQuiet /\ LimiterQuiet

LimiterNext ==
    \/ \E r \in Requests, client_ip \in ClientIps : dispatch_get(r, client_ip)
    \/ \E r \in Requests : dispatch_count(r)
    \/ \E client_ip \in ClientIps : expire(client_ip)

SpecLimiter == LimiterInit /\ [][LimiterNext]_vars

\* ---------------------------------------------------------- C27
\* C27: in every reachable state of the rate limiter, also when the counter
\* key expires between the middleware's GET and its INCR, every existing key
\* rate_limit:<ip> carries an expiry, so that a client that was refused with
\* 429 is served again once the window has ended.
C27_KeysExpire ==
    \A client_ip \in ClientIps :
        rate_limit[client_ip].exists => rate_limit[client_ip].expires
====
